---------------------------- MODULE OfflineProofs ----------------------------
(***************************************************************************)
(* Proofs about module OfflineReplay, for every finite set of events, any  *)
(* streams, any number of overlapping pushes and every bound on sequence   *)
(* numbers and faults.                                                     *)
(***************************************************************************)
EXTENDS OfflineReplay, SequenceTheorems, FiniteSetTheorems, WellFoundedInduction, TLAPS

-----------------------------------------------------------------------------
(* The inductive invariant. *)

Answers == [ev : Events, seq : Seqs, verdict : Verdicts]
Active == [at : {"next", "insert", "dispatch", "redispatch", "mark", "advance"},
           stream : Streams, last : 0..MaxSeq, out : SUBSET Answers, todo : Seq(Items)]

Shape == push \in [Pushes -> {Idle} \cup Active]

\* A row that counts as a proven replay is of an event that was applied.
RowsApplied ==
  \A n \in Seqs : slot[n] # Free /\ slot[n].status = "processed" /\ ~slot[n].tomb =>
                    slot[n].ev \in applied

\* A row without an id is a tombstone.
NamelessIsTomb == \A n \in Seqs : slot[n] # Free /\ slot[n].ev = NoId => slot[n].tomb

\* A number has gone to an event: it is its stamp, or an older one that a push still
\* carries or a row still holds.
Used(e, n) ==
  \/ stamp[e] = n
  \/ \E p \in Pushes : /\ push[p] # Idle
                       /\ \E i \in 1..Len(push[p].todo) : push[p].todo[i].ev = e /\ push[p].todo[i].seq = n
  \/ slot[n] # Free /\ slot[n].ev = e

\* The machine gives no number of a stream to two events, so a slot that is held by
\* another event is held by one of another stream.  Numbers of an event only grow.
NumbersUnique ==
  /\ \A e \in Events, n \in Seqs : Used(e, n) => n < next[StreamOf[e]] /\ n <= stamp[e]
  /\ \A e, f \in Events, n \in Seqs :
       Used(e, n) /\ Used(f, n) /\ StreamOf[e] = StreamOf[f] => e = f

\* Events that the server may answer for.
Settled == applied \cup {e \in Events : Mistaken(e)}

\* What a push has answered is true of the events settled and given up, its tombstones
\* are of events given up, and the others, whose slots may turn out occupied, are of
\* its stream.
PushTrue(r, ok, dr) ==
  r # Idle =>
    /\ \A a \in r.out : /\ a.verdict \in {"accepted", "replayed"} => a.ev \in ok
                        /\ a.verdict = "abandoned" => a.ev \in dr
                        /\ a.verdict = "occupied" => StreamOf[a.ev] = r.stream
    /\ \A i \in 1..Len(r.todo) : /\ r.todo[i].tomb => r.todo[i].ev \in dr
                                 /\ ~r.todo[i].tomb => StreamOf[r.todo[i].ev] = r.stream
    /\ r.at # "next" /\ r.todo # <<>> => ~r.todo[1].tomb
AnswersTrue == \A p \in Pushes : PushTrue(push[p], Settled, dropped)

\* The row a push is about to rewrite is its event's, or a tombstone; the event of a
\* row it is about to mark has been applied.
Ahead(r, rows, ap) ==
  r # Idle /\ r.at \in {"dispatch", "mark"} /\ r.todo # <<>> =>
    /\ rows[Head(r.todo).seq] # Free
    /\ rows[Head(r.todo).seq].ev = Head(r.todo).ev \/ rows[Head(r.todo).seq].tomb
    /\ r.at = "mark" => Head(r.todo).ev \in ap
RowAhead == \A p \in Pushes : Ahead(push[p], slot, applied)

OInv == /\ TypeOK /\ Shape /\ RowsApplied /\ NamelessIsTomb /\ AnswersTrue /\ RowAhead
        /\ NumbersUnique /\ DoneIsApplied

-----------------------------------------------------------------------------
(* What a step may do to rows, events and pushes. *)

\* Rows stay in their slots with their event, and nothing applied or given up is undone.
Kept ==
  /\ slot' \in [Seqs -> {Free} \cup Rows]
  /\ \A n \in Seqs : slot[n] # Free => /\ slot'[n] # Free /\ slot'[n].ev = slot[n].ev
                                       /\ slot'[n].tomb = slot[n].tomb
  /\ applied \subseteq applied' /\ applied' \subseteq Events
  /\ dropped \subseteq dropped' /\ dropped' \subseteq Events
  /\ faults > 0 => faults' > 0
  /\ \A e \in Events : stamp[e] \in Int /\ stamp'[e] \in Int /\ stamp[e] <= stamp'[e]
  /\ \A n \in Seqs : slot'[n] # Free /\ slot'[n].ev \in Events => Used(slot'[n].ev, n)
  /\ RowsApplied' /\ NamelessIsTomb'

\* A push carries on with numbers that were in use before.
Carries(r) == r # Idle => \A i \in 1..Len(r.todo) : Used(r.todo[i].ev, r.todo[i].seq)

PushStep ==
  /\ push' \in [Pushes -> {Idle} \cup Active]
  /\ \A p \in Pushes : /\ PushTrue(push'[p], Settled', dropped')
                       /\ Ahead(push'[p], slot', applied')
                       /\ Carries(push'[p])

LEMMA IdlePush == /\ \A r \in Active : r # Idle
                  /\ \A ok, dr : PushTrue(Idle, ok, dr)
                  /\ \A rows, ap : Ahead(Idle, rows, ap)
                  /\ Carries(Idle)
  BY DEF Active, Idle, PushTrue, Ahead, Carries

\* A push that is idle or not, and its first item.
LEMMA PushType ==
  ASSUME OInv, NEW p \in Pushes, push[p] # Idle
  PROVE  /\ push[p] \in Active /\ push[p].todo \in Seq(Items) /\ Len(push[p].todo) \in Nat
         /\ push[p].todo # <<>> =>
              /\ Item(p) \in Items /\ Item(p).ev \in Events /\ Item(p).seq \in Seqs
              /\ Tail(push[p].todo) \in Seq(Items) /\ Item(p) = push[p].todo[1]
              /\ 1 \in 1..Len(push[p].todo)
              /\ \A i \in 1..Len(Tail(push[p].todo)) :
                   i + 1 \in 1..Len(push[p].todo) /\ Tail(push[p].todo)[i] = push[p].todo[i + 1]
  <1> DEFINE s == push[p].todo
  <1>1. push[p] \in Active  BY DEF OInv, Shape
  <1>2. s \in Seq(Items) /\ Len(s) \in Nat  BY <1>1, LenProperties DEF Active
  <1> HIDE DEF s
  <1>3. ASSUME s # <<>>
        PROVE  /\ Head(s) \in Items /\ Tail(s) \in Seq(Items) /\ Head(s) = s[1] /\ 1 \in 1..Len(s)
               /\ \A i \in 1..Len(Tail(s)) : i + 1 \in 1..Len(s) /\ Tail(s)[i] = s[i + 1]
    <2>1. Len(s) # 0  BY <1>2, <1>3, EmptySeq
    <2>2. /\ Head(s) \in Items /\ Tail(s) \in Seq(Items) /\ Len(Tail(s)) = Len(s) - 1
          /\ \A i \in 1..Len(Tail(s)) : Tail(s)[i] = s[i + 1]
      BY <1>2, <1>3, HeadTailProperties
    <2> QED BY <1>2, <2>1, <2>2
  <1> QED BY <1>1, <1>2, <1>3 DEF Item, Items, s

\* What is settled stays settled.
LEMMA SettledStays ==
  ASSUME Kept
  PROVE  Settled \subseteq Settled' /\ applied' \subseteq Settled'
  <1>1. ASSUME NEW e \in Events, Mistaken(e)
        PROVE  /\ e \in Cash /\ (e \in Traced => faults' > 0)
               /\ \E n \in Seqs : /\ n <= stamp'[e]
                                  /\ slot'[n] # Free /\ slot'[n].ev \in Events
                                  /\ StreamOf[slot'[n].ev] # StreamOf[e]
    <2>1. e \in Cash /\ (e \in Traced => faults' > 0)  BY <1>1 DEF Mistaken, Kept
    <2>2. PICK n \in Seqs : /\ n <= stamp[e] /\ slot[n] # Free /\ slot[n].ev \in Events
                            /\ StreamOf[slot[n].ev] # StreamOf[e]
      BY <1>1 DEF Mistaken
    <2>3. slot'[n] # Free /\ slot'[n].ev = slot[n].ev  BY <2>2 DEF Kept
    <2>4. n <= stamp'[e]
      <3>1. n \in Int /\ stamp[e] \in Int /\ stamp'[e] \in Int /\ stamp[e] <= stamp'[e]
        BY OfflineLimits DEF Kept, Seqs
      <3> QED BY <2>2, <3>1
    <2> QED BY <2>1, <2>2, <2>3, <2>4
  <1>2. \A e \in Events : Mistaken(e) => Mistaken(e)'  BY <1>1 DEF Mistaken, Free
  <1> QED BY <1>2 DEF Kept, Settled

LEMMA NowMistaken ==
  ASSUME NEW e \in Events, e \in Cash, e \in Traced => faults' > 0, NEW n \in Seqs, n <= stamp'[e],
         slot'[n] # Free, slot'[n].ev \in Events, StreamOf[slot'[n].ev] # StreamOf[e]
  PROVE  e \in Settled'
  <1>1. Mistaken(e)'  BY DEF Mistaken, Free
  <1> QED BY <1>1 DEF Settled

LEMMA TrueStays ==
  ASSUME Kept, NEW r, PushTrue(r, Settled, dropped)
  PROVE  PushTrue(r, Settled', dropped')
  <1>1. Settled \subseteq Settled' /\ dropped \subseteq dropped'  BY SettledStays DEF Kept
  <1> QED BY <1>1 DEF PushTrue

LEMMA CarriesStill ==
  ASSUME NEW p \in Pushes
  PROVE  Carries(push[p])
  BY DEF Carries, Used

LEMMA AheadStays ==
  ASSUME Kept, NEW r \in {Idle} \cup Active, Ahead(r, slot, applied)
  PROVE  Ahead(r, slot', applied')
  <1> SUFFICES ASSUME r # Idle, r.at \in {"dispatch", "mark"}, r.todo # <<>>
               PROVE  Ahead(r, slot', applied')
    BY DEF Ahead
  <1>1. r.todo \in Seq(Items)  BY DEF Active
  <1>2. Head(r.todo) \in Items  BY <1>1, HeadTailProperties
  <1>3. Head(r.todo).seq \in Seqs  BY <1>2 DEF Items
  <1>4. /\ slot[Head(r.todo).seq] # Free
        /\ slot[Head(r.todo).seq].ev = Head(r.todo).ev \/ slot[Head(r.todo).seq].tomb
        /\ r.at = "mark" => Head(r.todo).ev \in applied
    BY DEF Ahead
  <1> HIDE DEF Ahead
  <1>5. /\ slot'[Head(r.todo).seq] # Free
        /\ slot'[Head(r.todo).seq].ev = Head(r.todo).ev \/ slot'[Head(r.todo).seq].tomb
        /\ r.at = "mark" => Head(r.todo).ev \in applied'
    BY <1>3, <1>4 DEF Kept
  <1> QED BY <1>5 DEF Ahead

\* One push is at r afterwards.
LEMMA PushGoes ==
  ASSUME OInv, Kept, NEW p \in Pushes, NEW r \in {Idle} \cup Active, push' = [push EXCEPT ![p] = r],
         PushTrue(r, Settled', dropped'), Ahead(r, slot', applied'), Carries(r)
  PROVE  PushStep
  <1>1. push \in [Pushes -> {Idle} \cup Active]  BY DEF OInv, Shape
  <1>2. /\ push' \in [Pushes -> {Idle} \cup Active] /\ push'[p] = r
        /\ \A q \in Pushes : q # p => push'[q] = push[q]
    BY <1>1
  <1>3. ASSUME NEW q \in Pushes, q # p
        PROVE  /\ PushTrue(push'[q], Settled', dropped') /\ Ahead(push'[q], slot', applied')
               /\ Carries(push'[q])
    <2>1. PushTrue(push[q], Settled, dropped) /\ Ahead(push[q], slot, applied)
      BY DEF OInv, AnswersTrue, RowAhead
    <2>2. push[q] \in {Idle} \cup Active  BY <1>1
    <2> QED BY <1>2, <1>3, <2>1, <2>2, TrueStays, AheadStays, CarriesStill
  <1> QED BY <1>2, <1>3 DEF PushStep

LEMMA PushesStay ==
  ASSUME OInv, Kept, push' = push
  PROVE  PushStep
  <1>1. push \in [Pushes -> {Idle} \cup Active]  BY DEF OInv, Shape
  <1>2. ASSUME NEW q \in Pushes
        PROVE  /\ PushTrue(push[q], Settled', dropped') /\ Ahead(push[q], slot', applied')
               /\ Carries(push[q])
    <2>1. PushTrue(push[q], Settled, dropped) /\ Ahead(push[q], slot, applied)
      BY DEF OInv, AnswersTrue, RowAhead
    <2> QED BY <1>1, <2>1, TrueStays, AheadStays, CarriesStill
  <1> QED BY <1>1, <1>2 DEF PushStep

\* The current event is answered, truly.
LEMMA AnswerStep ==
  ASSUME OInv, Kept, NEW p \in Pushes, push[p] # Idle, push[p].todo # <<>>, NEW v \in Verdicts,
         Skip(p, v) \/ Conclude(p, v) \/ Break(p, v),
         v \in {"accepted", "replayed"} => Item(p).ev \in Settled',
         v \in {"accepted", "replayed", "occupied"} => push[p].at # "next" \/ ~Item(p).tomb,
         v = "abandoned" => Item(p).ev \in dropped'
  PROVE  PushStep
  <1> DEFINE a == [ev |-> Item(p).ev, seq |-> Item(p).seq, verdict |-> v]
             o == push[p].out \cup {a}
             skip == [push[p] EXCEPT !.todo = Tail(@), !.at = "next", !.out = o]
             hold == [push[p] EXCEPT !.at = "advance", !.out = o]
             stop == [push[p] EXCEPT !.todo = <<>>, !.at = "next", !.out = o]
  <1>0. push \in [Pushes -> {Idle} \cup Active]  BY DEF OInv, Shape
  <1>1. /\ push[p] \in Active /\ Item(p) \in Items /\ Item(p).ev \in Events /\ Item(p).seq \in Seqs
        /\ Tail(push[p].todo) \in Seq(Items) /\ Item(p) = push[p].todo[1] /\ 1 \in 1..Len(push[p].todo)
        /\ \A i \in 1..Len(Tail(push[p].todo)) :
             i + 1 \in 1..Len(push[p].todo) /\ Tail(push[p].todo)[i] = push[p].todo[i + 1]
    BY PushType
  <1>2. a \in Answers /\ o \subseteq Answers  BY <1>1 DEF Answers, Active
  <1>3. PushTrue(push[p], Settled', dropped')  BY TrueStays DEF OInv, AnswersTrue
  <1>t. v \in {"accepted", "replayed", "occupied"} => ~Item(p).tomb
    BY <1>1, <1>3 DEF PushTrue
  <1>4. \A b \in o : /\ b.verdict \in {"accepted", "replayed"} => b.ev \in Settled'
                     /\ b.verdict = "abandoned" => b.ev \in dropped'
                     /\ b.verdict = "occupied" => StreamOf[b.ev] = push[p].stream
    BY <1>1, <1>3, <1>t DEF PushTrue
  <1>5. /\ \A i \in 1..Len(push[p].todo) :
             /\ push[p].todo[i].tomb => push[p].todo[i].ev \in dropped'
             /\ ~push[p].todo[i].tomb => StreamOf[push[p].todo[i].ev] = push[p].stream
        /\ \A i \in 1..Len(push[p].todo) : Used(push[p].todo[i].ev, push[p].todo[i].seq)
    BY <1>3, CarriesStill DEF PushTrue, Carries
  <1> HIDE DEF o
  <1>6. \/ push' \in {[push EXCEPT ![p] = skip], [push EXCEPT ![p] = stop]}
        \/ push' = [push EXCEPT ![p] = hold] /\ v \in {"accepted", "replayed"}
    <2>1. Skip(p, v) => push' = [push EXCEPT ![p] = skip]  BY <1>0 DEF Skip, o
    <2>2. Break(p, v) => push' = [push EXCEPT ![p] = stop]  BY <1>0 DEF Break, o
    <2>3. Conclude(p, v) =>
            Skip(p, v) \/ (push' = [push EXCEPT ![p] = hold] /\ v \in {"accepted", "replayed"})
      BY <1>0 DEF Conclude, o
    <2> QED BY <2>1, <2>2, <2>3
  <1>7. <<>> \in Seq(Items) /\ Len(<<>>) = 0  BY EmptySeq
  <1>8. /\ skip.stream = push[p].stream /\ hold.stream = push[p].stream /\ stop.stream = push[p].stream
        /\ skip \in Active /\ skip.at = "next" /\ skip.out = o /\ skip.todo = Tail(push[p].todo)
        /\ hold \in Active /\ hold.at = "advance" /\ hold.out = o /\ hold.todo = push[p].todo
        /\ stop \in Active /\ stop.at = "next" /\ stop.out = o /\ stop.todo = <<>>
    BY <1>1, <1>2, <1>7 DEF Active
  <1> HIDE DEF skip, hold, stop
  <1>9. ASSUME NEW r \in {skip, hold, stop}, r = hold => v \in {"accepted", "replayed"}
        PROVE  PushTrue(r, Settled', dropped') /\ Ahead(r, slot', applied') /\ Carries(r)
    <2>1. Ahead(r, slot', applied')  BY <1>8 DEF Ahead
    <2>2. /\ \A i \in 1..Len(r.todo) : /\ r.todo[i].tomb => r.todo[i].ev \in dropped'
                                       /\ ~r.todo[i].tomb => StreamOf[r.todo[i].ev] = push[p].stream
          /\ \A i \in 1..Len(r.todo) : Used(r.todo[i].ev, r.todo[i].seq)
      <3>1. CASE r.todo = Tail(push[p].todo)  BY <1>1, <1>5, <3>1
      <3>2. CASE r.todo = <<>>  BY <1>7, <3>2
      <3>3. CASE r.todo = push[p].todo  BY <1>5, <3>3
      <3> QED BY <1>8, <3>1, <3>2, <3>3
    <2>3. r.out = o /\ r.stream = push[p].stream  BY <1>8
    <2>4. r.at # "next" => ~r.todo[1].tomb
      <3>1. r.at # "next" => r = hold  BY <1>8
      <3> QED BY <1>1, <1>8, <1>9, <1>t, <3>1
    <2>5. PushTrue(r, Settled', dropped')  BY <1>4, <2>2, <2>3, <2>4 DEF PushTrue
    <2> QED BY <2>1, <2>2, <2>5 DEF Carries
  <1>10. CASE push' \in {[push EXCEPT ![p] = skip], [push EXCEPT ![p] = stop]}
    <2>1. PICK r \in {skip, stop} : push' = [push EXCEPT ![p] = r]  BY <1>10
    <2>2. r # hold /\ r \in Active  BY <1>8
    <2> QED BY <1>9, <2>1, <2>2, PushGoes
  <1>11. CASE push' = [push EXCEPT ![p] = hold] /\ v \in {"accepted", "replayed"}
    BY <1>8, <1>9, <1>11, PushGoes
  <1> QED BY <1>6, <1>10, <1>11

\* A push goes on with the same event.
LEMMA GotoStep ==
  ASSUME OInv, Kept, NEW p \in Pushes, push[p] # Idle,
         NEW at \in {"insert", "dispatch", "redispatch", "mark"}, Goto(p, at),
         at \in {"dispatch", "mark"} => /\ slot'[Item(p).seq] # Free
                                        /\ slot'[Item(p).seq].ev = Item(p).ev \/ slot'[Item(p).seq].tomb,
         at = "mark" => Item(p).ev \in applied',
         push[p].todo # <<>>, push[p].at # "next" \/ ~Item(p).tomb
  PROVE  PushStep
  <1> DEFINE r == [push[p] EXCEPT !.at = at]
  <1>0. push \in [Pushes -> {Idle} \cup Active]  BY DEF OInv, Shape
  <1>1. push[p] \in Active /\ Item(p) = push[p].todo[1]  BY PushType
  <1>2. /\ r \in Active /\ r.at = at /\ r.out = push[p].out /\ r.todo = push[p].todo
        /\ r.stream = push[p].stream
    BY <1>1 DEF Active
  <1>3. push' = [push EXCEPT ![p] = r]  BY <1>0 DEF Goto
  <1> HIDE DEF r
  <1>4. PushTrue(push[p], Settled', dropped')  BY TrueStays DEF OInv, AnswersTrue
  <1>5. PushTrue(r, Settled', dropped')  BY <1>1, <1>2, <1>4 DEF PushTrue
  <1>6. Ahead(r, slot', applied')  BY <1>2 DEF Ahead, Item
  <1>7. Carries(r)  BY <1>2, CarriesStill, IdlePush DEF Carries
  <1> QED BY <1>2, <1>3, <1>5, <1>6, <1>7, PushGoes

\* The rest of the invariant.
LEMMA StepInv ==
  ASSUME Kept, PushStep, cursor' \in [Streams -> 0..MaxSeq], faults' \in 0..MaxFaults,
         stamp' \in [Events -> 0..MaxSeq], next' \in [Streams -> 1..(MaxSeq + 1)],
         done' \subseteq Events, DoneIsApplied', NumbersUnique'
  PROVE  OInv'
  <1>1. Shape' /\ AnswersTrue' /\ RowAhead'  BY DEF PushStep, Shape, AnswersTrue, RowAhead, Active, Answers, Idle
  <1>2. TypeOK'
    <2>1. ASSUME NEW p \in Pushes
          PROVE  push'[p] = Idle \/
                   /\ push'[p].at \in {"next", "insert", "dispatch", "redispatch", "mark", "advance"}
                   /\ push'[p].stream \in Streams /\ push'[p].last \in 0..MaxSeq
                   /\ push'[p].todo \in Seq(Items)
                   /\ push'[p].out \subseteq [ev : Events, seq : Seqs, verdict : Verdicts]
      BY DEF PushStep, Active, Answers
    <2> QED BY <2>1 DEF TypeOK, Kept
  <1> QED BY <1>1, <1>2 DEF OInv, Kept

\* After a step a number is used that was used before, or that is a stamp now.
LEMMA UsedBefore ==
  ASSUME OInv, Kept, PushStep, NEW e \in Events, NEW n \in Seqs, Used(e, n)'
  PROVE  Used(e, n) \/ stamp'[e] = n
  <1>1. CASE \E p \in Pushes : /\ push'[p] # Idle
               /\ \E i \in 1..Len(push'[p].todo) : push'[p].todo[i].ev = e /\ push'[p].todo[i].seq = n
    BY <1>1 DEF PushStep, Carries
  <1>2. CASE slot'[n] # Free /\ slot'[n].ev = e  BY <1>2 DEF Kept
  <1> QED BY <1>1, <1>2 DEF Used, Idle, Free

\* A step that gives out no number.
LEMMA UsedShrinks ==
  ASSUME OInv, next' = next, stamp' = stamp,
         \A e \in Events, n \in Seqs : Used(e, n)' => Used(e, n)
  PROVE  NumbersUnique'
  <1>1. \A e \in Events, n \in Seqs : Used(e, n)' => n < next'[StreamOf[e]] /\ n <= stamp'[e]
    BY DEF OInv, NumbersUnique
  <1>2. \A e, f \in Events, n \in Seqs :
          Used(e, n)' /\ Used(f, n)' /\ StreamOf[e] = StreamOf[f] => e = f
    BY DEF OInv, NumbersUnique
  <1> QED BY <1>1, <1>2 DEF NumbersUnique

\* What left the queue stays settled or given up.
LEMMA DoneStays ==
  ASSUME OInv, Kept
  PROVE  \A e \in done : e \in applied' \cup dropped' \/ Mistaken(e)'
  <1>1. done \subseteq Events  BY DEF OInv, TypeOK
  <1>2. \A e \in done : e \in Settled \/ e \in dropped  BY <1>1 DEF OInv, DoneIsApplied, Settled
  <1>3. \A e \in done : e \in Settled' \/ e \in dropped'  BY <1>2, SettledStays DEF Kept
  <1> QED BY <1>3 DEF Settled

\* A step of the server leaves the machine alone.
LEMMA ServerInv ==
  ASSUME OInv, Kept, PushStep, cursor' \in [Streams -> 0..MaxSeq], faults' \in 0..MaxFaults,
         UNCHANGED machine
  PROVE  OInv'
  <1>0. UNCHANGED <<stamp, next, done, dropped>>  BY DEF machine
  <1>1. DoneIsApplied'  BY <1>0, DoneStays DEF DoneIsApplied
  <1>2. /\ stamp' \in [Events -> 0..MaxSeq] /\ next' \in [Streams -> 1..(MaxSeq + 1)]
        /\ done' \subseteq Events
    BY <1>0 DEF OInv, TypeOK
  <1>3. \A e \in Events, n \in Seqs : Used(e, n)' => Used(e, n)
    <2>1. ASSUME NEW e \in Events, NEW n \in Seqs, Used(e, n)' PROVE Used(e, n)
      <3>1. Used(e, n) \/ stamp[e] = n  BY <1>0, <2>1, UsedBefore
      <3> QED BY <3>1 DEF Used
    <2> QED BY <2>1
  <1>4. NumbersUnique'  BY <1>0, <1>3, UsedShrinks
  <1> QED BY <1>1, <1>2, <1>4, StepInv

\* The machine numbers the events of es, at most one, with the next number of s.
LEMMA StampInv ==
  ASSUME OInv, Kept, PushStep, NEW s \in Streams, next[s] <= MaxSeq, NEW es \in SUBSET Events,
         \A e \in es : StreamOf[e] = s, \A e, f \in es : e = f,
         \A e \in Events : stamp'[e] = IF e \in es THEN next[s] ELSE stamp[e],
         \A t \in Streams : t # s => next'[t] = next[t],
         next' \in [Streams -> 1..(MaxSeq + 1)],
         next'[s] >= next[s], es # {} => next'[s] = next[s] + 1
  PROVE  NumbersUnique'
  <1>0. \A t \in Streams : next[t] \in Int /\ next'[t] \in Int /\ next'[t] >= next[t]
    <2>1. next \in [Streams -> 1..(MaxSeq + 1)]  BY DEF OInv, TypeOK
    <2>2. \A t \in Streams : next[t] \in Int /\ next'[t] \in Int  BY <2>1, OfflineLimits
    <2> QED BY <2>2
  <1>1. ASSUME NEW e \in Events, NEW n \in Seqs, Used(e, n)'
        PROVE  Used(e, n) \/ (e \in es /\ n = next[s])
    <2>1. Used(e, n) \/ stamp'[e] = n  BY <1>1, UsedBefore
    <2> QED BY <2>1 DEF Used
  <1>2. ASSUME NEW e \in Events, NEW n \in Seqs, Used(e, n)'
        PROVE  n < next'[StreamOf[e]] /\ n <= stamp'[e]
    <2>0. StreamOf[e] \in Streams /\ n \in Int  BY OfflineSets, OfflineLimits DEF Seqs
    <2>1. CASE Used(e, n)
      <3>1. n < next[StreamOf[e]] /\ n <= stamp[e]  BY <2>1 DEF OInv, NumbersUnique
      <3>2. stamp[e] \in Int /\ stamp'[e] \in Int /\ stamp[e] <= stamp'[e]  BY DEF Kept
      <3> QED BY <1>0, <2>0, <3>1, <3>2
    <2>2. CASE e \in es /\ n = next[s]  BY <1>0, <2>0, <2>2
    <2> QED BY <1>1, <1>2, <2>1, <2>2
  <1>3. ASSUME NEW e \in Events, NEW f \in Events, NEW n \in Seqs, Used(e, n)', Used(f, n)',
               StreamOf[e] = StreamOf[f]
        PROVE  e = f
    <2>1. \A g \in Events : Used(g, n) => n < next[StreamOf[g]]  BY DEF OInv, NumbersUnique
    <2>2. ~(next[s] < next[s])  BY <1>0
    <2>3. CASE Used(e, n) /\ Used(f, n)  BY <1>3, <2>3 DEF OInv, NumbersUnique
    <2>4. CASE e \in es /\ n = next[s]  BY <1>1, <1>3, <2>1, <2>2, <2>4
    <2>5. CASE f \in es /\ n = next[s]  BY <1>1, <1>3, <2>1, <2>2, <2>5
    <2> QED BY <1>1, <1>3, <2>3, <2>4, <2>5
  <1> QED BY <1>2, <1>3 DEF NumbersUnique

\* Numbers are as they were.
LEMMA StampSame ==
  ASSUME OInv, stamp' = stamp
  PROVE  \A e \in Events : stamp[e] \in Int /\ stamp'[e] \in Int /\ stamp[e] <= stamp'[e]
  <1>1. \A e \in Events : stamp[e] \in Int /\ stamp[e] <= stamp[e]  BY OfflineLimits DEF OInv, TypeOK
  <1> QED BY <1>1

LEMMA SameKept ==
  ASSUME OInv, UNCHANGED <<slot, applied, dropped>>, faults' \in {faults, faults + 1},
         \/ UNCHANGED stamp
         \/ \A e \in Events : stamp'[e] \in Int /\ stamp[e] <= stamp'[e]
  PROVE  Kept
  <1>1. faults > 0 => faults' > 0  BY OfflineLimits DEF OInv, TypeOK
  <1>2. \A n \in Seqs : slot'[n] # Free /\ slot'[n].ev \in Events => Used(slot'[n].ev, n)
    BY DEF Used
  <1>3. \A e \in Events : stamp[e] \in Int /\ stamp'[e] \in Int /\ stamp[e] <= stamp'[e]
    <2>1. \A e \in Events : stamp[e] \in Int  BY OfflineLimits DEF OInv, TypeOK
    <2> QED BY <2>1, StampSame
  <1> QED BY <1>1, <1>2, <1>3 DEF OInv, Kept, TypeOK, RowsApplied, NamelessIsTomb

LEMMA OfflineTypes ==
  OInv => /\ slot \in [Seqs -> {Free} \cup Rows] /\ applied \subseteq Events /\ dropped \subseteq Events
          /\ cursor \in [Streams -> 0..MaxSeq] /\ faults \in 0..MaxFaults /\ faults \in Nat
          /\ (faults < MaxFaults => faults + 1 \in 0..MaxFaults)
  BY OfflineLimits DEF OInv, TypeOK

\* Free is no row.
LEMMA FreeIsNoRow == \A r \in Rows : r # Free
  BY DEF Rows, Free

-----------------------------------------------------------------------------
(* The server's steps. *)

\* A lookup that fails counts as a fault.
LEMMA LookupFaults ==
  ASSUME OInv, NEW e, NEW missing, CashMissing(e, missing)
  PROVE  faults' \in {faults, faults + 1} /\ faults' \in 0..MaxFaults
  BY OfflineTypes DEF CashMissing

\* A stale answer, a gap, a lost push.
LEMMA QuietInv ==
  ASSUME OInv, NEW p \in Pushes,
         StaleOccupied(p) \/ StaleReplayed(p) \/ OutOfOrder(p) \/ PushLost(p) \/ StatementFails(p)
  PROVE  OInv'
  <1>0. faults' \in {faults, faults + 1} /\ faults' \in 0..MaxFaults
    <2>1. CASE StaleOccupied(p) \/ StaleReplayed(p)
      BY <2>1, LookupFaults DEF StaleOccupied, StaleReplayed, Stale
    <2>2. CASE OutOfOrder(p) \/ PushLost(p) \/ StatementFails(p)
      BY <2>2, OfflineTypes DEF OutOfOrder, PushLost, StatementFails
    <2> QED BY <2>1, <2>2
  <1>1. Kept
    <2>1. UNCHANGED <<slot, applied, dropped, stamp>>
      BY DEF StaleOccupied, StaleReplayed, OutOfOrder, PushLost, StatementFails, server, machine
    <2> QED BY <1>0, <2>1, SameKept
  <1>2. /\ UNCHANGED machine /\ cursor' \in [Streams -> 0..MaxSeq] /\ faults' \in 0..MaxFaults
    BY <1>0, OfflineTypes DEF StaleOccupied, StaleReplayed, OutOfOrder, PushLost, StatementFails, server
  <1>3. CASE StaleOccupied(p)
    <2>1. PushStep  BY <1>1, <1>3, AnswerStep DEF StaleOccupied, Pending, Verdicts
    <2> QED BY <1>1, <1>2, <2>1, ServerInv
  <1>4. CASE StaleReplayed(p)
    <2>1. PICK n \in Seqs : slot[n] # Free /\ Proven(slot[n], Item(p).ev)
      BY <1>4 DEF StaleReplayed, SlotOf
    <2>2. Item(p).ev \in applied  BY <2>1 DEF Proven, OInv, RowsApplied
    <2>4. Item(p).ev \in Settled'  BY <1>1, <2>2, SettledStays DEF Settled
    <2>3. PushStep  BY <1>1, <1>4, <2>4, AnswerStep DEF StaleReplayed, Pending, Verdicts
    <2> QED BY <1>1, <1>2, <2>3, ServerInv
  <1>5. CASE OutOfOrder(p) \/ PushLost(p)
    <2>1. push' = [push EXCEPT ![p] = Idle]  BY <1>5 DEF OutOfOrder, PushLost
    <2>2. PushStep  BY <1>1, <2>1, IdlePush, PushGoes
    <2> QED BY <1>1, <1>2, <2>2, ServerInv
  <1>6. CASE StatementFails(p)
    <2>1. PICK v \in {"retry", "synced", "rejected"} : Skip(p, v) \/ Break(p, v)
      BY <1>6 DEF StatementFails
    <2>2. push[p] # Idle /\ push[p].todo # <<>>  BY <1>6 DEF StatementFails, Pending
    <2>3. PushStep  BY <1>1, <2>1, <2>2, AnswerStep DEF Verdicts
    <2> QED BY <1>1, <1>2, <2>3, ServerInv
  <1> QED BY <1>3, <1>4, <1>5, <1>6

LEMMA LookUpInv ==
  ASSUME OInv, NEW p \in Pushes, LookUp(p)
  PROVE  OInv'
  <1> DEFINE e == Item(p).ev
  <1>0. faults' \in {faults, faults + 1} /\ faults' \in 0..MaxFaults
    BY LookupFaults DEF LookUp
  <1>1. Kept  BY <1>0, SameKept DEF LookUp, server, machine
  <1>2. UNCHANGED machine /\ cursor' \in [Streams -> 0..MaxSeq] /\ faults' \in 0..MaxFaults
    BY <1>0, OfflineTypes DEF LookUp, server
  <1>3. push[p] # Idle /\ push[p].todo # <<>> /\ ~Item(p).tomb  BY DEF LookUp, Pending
  <1>4. \/ Goto(p, "insert") \/ Goto(p, "redispatch")
        \/ /\ \E n \in SlotOf(e) : Proven(slot[n], e)
           /\ Conclude(p, "replayed")
    BY DEF LookUp
  <1>5. CASE Goto(p, "insert") \/ Goto(p, "redispatch")
    <2>1. PushStep  BY <1>1, <1>3, <1>5, GotoStep
    <2> QED BY <1>1, <1>2, <2>1, ServerInv
  <1>6. CASE (\E n \in SlotOf(e) : Proven(slot[n], e)) /\ Conclude(p, "replayed")
    <2>1. PICK n \in Seqs : slot[n] # Free /\ Proven(slot[n], e)  BY <1>6 DEF SlotOf
    <2>2. e \in applied  BY <2>1 DEF Proven, OInv, RowsApplied
    <2>4. e \in Settled'  BY <1>1, <2>2, SettledStays DEF Settled
    <2>3. PushStep  BY <1>1, <1>3, <1>6, <2>4, AnswerStep DEF Verdicts
    <2> QED BY <1>1, <1>2, <2>3, ServerInv
  <1> QED BY <1>4, <1>5, <1>6

\* A new row is not yet processed, and without an id only as a tombstone.
LEMMA NewRow ==
  ASSUME OInv, NEW n \in Seqs, slot[n] = Free, NEW r \in Rows, slot' = [slot EXCEPT ![n] = r],
         r.status # "processed", r.ev = NoId => r.tomb, UNCHANGED <<applied, dropped, stamp, faults>>,
         r.ev \in Events => Used(r.ev, n)
  PROVE  Kept
  <1>1. slot \in [Seqs -> {Free} \cup Rows]  BY OfflineTypes
  <1>2. /\ slot' \in [Seqs -> {Free} \cup Rows] /\ slot'[n] = r
        /\ \A k \in Seqs : k # n => slot'[k] = slot[k]
    BY <1>1
  <1>3. RowsApplied'  BY <1>2 DEF OInv, RowsApplied, Free
  <1>4. NamelessIsTomb'  BY <1>2 DEF OInv, NamelessIsTomb, Free, NoId
  <1>5. \A k \in Seqs : slot[k] # Free => slot'[k] = slot[k]  BY <1>2
  <1>6. \A k \in Seqs : slot'[k] # Free /\ slot'[k].ev \in Events => Used(slot'[k].ev, k)
    BY <1>2 DEF Used
  <1> QED BY <1>2, <1>3, <1>4, <1>5, <1>6, OfflineTypes, StampSame DEF Kept

\* A row gets another status; "processed" only if its event has been applied.
LEMMA RowStatus ==
  ASSUME OInv, NEW n \in Seqs, slot[n] # Free,
         NEW st \in {"processing", "processed", "failed_retryable", "rejected"},
         slot' = [slot EXCEPT ![n].status = st],
         st = "processed" => slot[n].tomb \/ slot[n].ev \in applied,
         UNCHANGED <<applied, dropped, stamp>>,
         faults' \in {faults, faults + 1}
  PROVE  Kept
  <1>1. slot \in [Seqs -> {Free} \cup Rows] /\ slot[n] \in Rows  BY OfflineTypes
  <1> DEFINE r == [slot[n] EXCEPT !.status = st]
  <1>2. r \in Rows /\ r.status = st /\ r.ev = slot[n].ev /\ r.tomb = slot[n].tomb  BY <1>1 DEF Rows
  <1>3. slot' = [slot EXCEPT ![n] = r]  BY <1>1
  <1> HIDE DEF r
  <1>4. /\ slot' \in [Seqs -> {Free} \cup Rows] /\ slot'[n] = r
        /\ \A k \in Seqs : k # n => slot'[k] = slot[k]
    BY <1>1, <1>2, <1>3
  <1>5. r # Free  BY <1>2, FreeIsNoRow
  <1>6. RowsApplied'  BY <1>2, <1>4 DEF OInv, RowsApplied, Free
  <1>7. NamelessIsTomb'  BY <1>2, <1>4 DEF OInv, NamelessIsTomb, Free, NoId
  <1>8. \A k \in Seqs : slot[k] # Free => /\ slot'[k] # Free /\ slot'[k].ev = slot[k].ev
                                          /\ slot'[k].tomb = slot[k].tomb
    BY <1>2, <1>4, <1>5
  <1>9. \A k \in Seqs : slot'[k] # Free => slot[k] # Free /\ slot'[k].ev = slot[k].ev
    BY <1>2, <1>4
  <1>10. \A k \in Seqs : slot'[k] # Free /\ slot'[k].ev \in Events => Used(slot'[k].ev, k)
    BY <1>9 DEF Used
  <1>11. faults > 0 => faults' > 0  BY OfflineTypes
  <1> QED BY <1>4, <1>6, <1>7, <1>8, <1>10, <1>11, OfflineTypes, StampSame DEF Kept

LEMMA RaiseType ==
  ASSUME OInv, NEW s \in Streams, NEW n \in Seqs, Raise(s, n)
  PROVE  cursor' \in [Streams -> 0..MaxSeq] /\ \A t \in Streams : cursor'[t] >= cursor[t]
  <1>1. cursor \in [Streams -> 0..MaxSeq] /\ n \in 0..MaxSeq  BY OfflineTypes, OfflineLimits DEF Seqs
  <1> QED BY <1>1, OfflineLimits DEF Raise

\* An answer that moves the stream's number on.
LEMMA LastStep ==
  ASSUME OInv, Kept, NEW p \in Pushes, push[p] # Idle, push[p].todo # <<>>,
         NEW o \in SUBSET Answers, push' = [push EXCEPT ![p].todo = Tail(@), ![p].at = "next",
                                                         ![p].last = Item(p).seq, ![p].out = o],
         \A a \in o : /\ a.verdict \in {"accepted", "replayed"} => a.ev \in Settled'
                      /\ a.verdict = "abandoned" => a.ev \in dropped'
                      /\ a.verdict = "occupied" => StreamOf[a.ev] = push[p].stream
  PROVE  PushStep
  <1> DEFINE r == [push[p] EXCEPT !.todo = Tail(@), !.at = "next", !.last = Item(p).seq, !.out = o]
  <1>0. push \in [Pushes -> {Idle} \cup Active]  BY DEF OInv, Shape
  <1>1. /\ push[p] \in Active /\ Item(p).seq \in Seqs /\ Tail(push[p].todo) \in Seq(Items)
        /\ \A i \in 1..Len(Tail(push[p].todo)) :
             i + 1 \in 1..Len(push[p].todo) /\ Tail(push[p].todo)[i] = push[p].todo[i + 1]
    BY PushType
  <1>2. Item(p).seq \in 0..MaxSeq  BY <1>1, OfflineLimits DEF Seqs
  <1>3. /\ r \in Active /\ r.at = "next" /\ r.out = o /\ r.todo = Tail(push[p].todo)
        /\ r.stream = push[p].stream
    BY <1>1, <1>2 DEF Active
  <1>4. push' = [push EXCEPT ![p] = r]  BY <1>0
  <1> HIDE DEF r
  <1>5. PushTrue(push[p], Settled', dropped')  BY TrueStays DEF OInv, AnswersTrue
  <1>6. /\ \A i \in 1..Len(r.todo) : /\ r.todo[i].tomb => r.todo[i].ev \in dropped'
                                     /\ ~r.todo[i].tomb => StreamOf[r.todo[i].ev] = r.stream
        /\ \A i \in 1..Len(r.todo) : Used(r.todo[i].ev, r.todo[i].seq)
    BY <1>1, <1>3, <1>5, CarriesStill DEF PushTrue, Carries
  <1>7. PushTrue(r, Settled', dropped')  BY <1>3, <1>6 DEF PushTrue
  <1>8. Ahead(r, slot', applied')  BY <1>3 DEF Ahead
  <1>9. Carries(r)  BY <1>6 DEF Carries
  <1> QED BY <1>3, <1>4, <1>7, <1>8, <1>9, PushGoes

LEMMA AbandonedInv ==
  ASSUME OInv, NEW p \in Pushes, ApplyAbandoned(p)
  PROVE  OInv' /\ \A t \in Streams : cursor'[t] >= cursor[t]
  <1> DEFINE n == Item(p).seq
             e == Item(p).ev
             row == [ev |-> IF SlotOf(e) = {} THEN e ELSE NoId, status |-> "rejected", tomb |-> TRUE]
             a == [ev |-> e, seq |-> n, verdict |-> "abandoned"]
             o == push[p].out \cup {a}
  <1>1. /\ push[p] # Idle /\ push[p].todo # <<>> /\ push[p].at = "next" /\ Item(p).tomb
        /\ UNCHANGED <<applied, machine, faults>>
        /\ IF n <= push[p].last
           THEN Skip(p, "abandoned") /\ UNCHANGED <<slot, cursor>>
           ELSE /\ slot' = IF slot[n] = Free THEN [slot EXCEPT ![n] = row] ELSE slot
                /\ IF n = push[p].last + 1
                   THEN Raise(push[p].stream, n) /\ push' = [push EXCEPT ![p].todo = Tail(@), ![p].last = n,
                                                      ![p].out = @ \cup {a}]
                   ELSE Skip(p, "abandoned") /\ UNCHANGED cursor
    BY DEF ApplyAbandoned, Pending
  <1>2. /\ n \in Seqs /\ e \in Events /\ push[p] \in Active
        /\ 1 \in 1..Len(push[p].todo) /\ Item(p) = push[p].todo[1]
    BY <1>1, PushType
  <1>3. e \in dropped  BY <1>1, <1>2 DEF OInv, AnswersTrue, PushTrue
  <1>4. dropped' = dropped /\ stamp' = stamp  BY <1>1 DEF machine
  <1>5. row \in Rows /\ row.status = "rejected" /\ row.tomb /\ row.ev \in {e, NoId}  BY <1>2 DEF Rows
  <1> HIDE DEF row
  <1>u. row.ev \in Events => Used(row.ev, n)
    BY <1>1, <1>2, <1>5, CarriesStill, OfflineSets DEF Carries
  <1>6. Kept
    <2>1. CASE slot' = slot  BY <1>1, <1>4, <2>1, SameKept
    <2>2. CASE slot[n] = Free /\ slot' = [slot EXCEPT ![n] = row]
      BY <1>1, <1>2, <1>4, <1>5, <1>u, <2>2, NewRow
    <2> QED BY <1>1, <2>1, <2>2
  <1>7. faults' \in 0..MaxFaults /\ cursor \in [Streams -> 0..MaxSeq] /\ UNCHANGED machine
    BY <1>1, OfflineTypes
  <1>8. \A t \in Streams : cursor[t] >= cursor[t]  BY <1>7, OfflineLimits
  <1>9. CASE Skip(p, "abandoned") /\ cursor' = cursor
    <2>1. PushStep  BY <1>1, <1>3, <1>4, <1>6, <1>9, AnswerStep DEF Verdicts
    <2> QED BY <1>6, <1>7, <1>8, <1>9, <2>1, ServerInv
  <1>10. CASE /\ Raise(push[p].stream, n)
              /\ push' = [push EXCEPT ![p].todo = Tail(@), ![p].last = n, ![p].out = @ \cup {a}]
    <2>0. push \in [Pushes -> {Idle} \cup Active]  BY DEF OInv, Shape
    <2>1. push[p].stream \in Streams  BY <1>2 DEF Active
    <2>2. cursor' \in [Streams -> 0..MaxSeq] /\ \A t \in Streams : cursor'[t] >= cursor[t]
      BY <1>2, <1>10, <2>1, RaiseType
    <2>3. o \in SUBSET Answers  BY <1>2 DEF Active, Answers, Verdicts
    <2>7. PushTrue(push[p], Settled', dropped')  BY <1>6, TrueStays DEF OInv, AnswersTrue
    <2>4. \A b \in o : /\ b.verdict \in {"accepted", "replayed"} => b.ev \in Settled'
                       /\ b.verdict = "abandoned" => b.ev \in dropped'
                       /\ b.verdict = "occupied" => StreamOf[b.ev] = push[p].stream
      BY <1>1, <1>3, <1>4, <2>7 DEF PushTrue
    <2>5. push' = [push EXCEPT ![p].todo = Tail(@), ![p].at = "next", ![p].last = n, ![p].out = o]
      <3>1. push[p] = [push[p] EXCEPT !.at = "next"]  BY <1>1, <1>2 DEF Active
      <3> QED BY <1>10, <2>0, <3>1, ZenonT(40)
    <2> HIDE DEF o
    <2>6. PushStep  BY <1>1, <1>6, <2>3, <2>4, <2>5, LastStep
    <2> QED BY <1>6, <1>7, <2>2, <2>6, ServerInv
  <1> QED BY <1>1, <1>9, <1>10

\* The insert of an event's row, in its three outcomes.
LEMMA InsertInv ==
  ASSUME OInv, NEW p \in Pushes, InsertDuplicateId(p) \/ InsertNew(p) \/ InsertOccupied(p)
  PROVE  OInv'
  <1> DEFINE e == Item(p).ev
             n == Item(p).seq
  <1>1. push[p] # Idle /\ push[p].todo # <<>> /\ push[p].at = "insert"
    BY DEF InsertDuplicateId, InsertNew, InsertOccupied, Pending
  <1>2. e \in Events /\ n \in Seqs  BY <1>1, PushType
  <1>3. UNCHANGED <<applied, machine>> /\ dropped' = dropped /\ stamp' = stamp
    BY DEF InsertDuplicateId, InsertNew, InsertOccupied, server, machine
  <1>f. faults' \in {faults, faults + 1} /\ faults' \in 0..MaxFaults
    BY LookupFaults, OfflineTypes DEF InsertDuplicateId, InsertNew, InsertOccupied
  <1>4. cursor' \in [Streams -> 0..MaxSeq] /\ faults' \in 0..MaxFaults
    BY <1>f, OfflineTypes DEF InsertDuplicateId, InsertNew, InsertOccupied, server
  <1>u. /\ Used(e, n) /\ StreamOf[e] \in Streams
    BY <1>1, <1>2, PushType, CarriesStill, OfflineSets DEF Carries
  <1>5. CASE InsertDuplicateId(p)
    <2>1. Kept  BY <1>3, <1>5, <1>f, SameKept DEF InsertDuplicateId, server
    <2>2. CASE Goto(p, "redispatch")
      <3>1. PushStep  BY <1>1, <2>1, <2>2, GotoStep
      <3> QED BY <1>3, <1>4, <2>1, <3>1, ServerInv
    <2>3. CASE Break(p, "rejected")
      <3>1. PushStep  BY <1>1, <2>1, <2>3, AnswerStep DEF Verdicts
      <3> QED BY <1>3, <1>4, <2>1, <3>1, ServerInv
    <2> QED BY <1>5, <2>2, <2>3 DEF InsertDuplicateId
  <1>6. CASE InsertNew(p)
    <2> DEFINE row == [ev |-> e, status |-> "processing", tomb |-> FALSE]
    <2>1. row \in Rows /\ row.status # "processed" /\ row.ev = e /\ e # NoId
      BY <1>2, OfflineSets DEF Rows
    <2>2. slot[n] = Free /\ slot' = [slot EXCEPT ![n] = row] /\ Goto(p, "dispatch")
      BY <1>6 DEF InsertNew
    <2> HIDE DEF row
    <2>7. UNCHANGED faults  BY <1>6 DEF InsertNew
    <2>3. Kept  BY <1>2, <1>3, <1>u, <2>1, <2>2, <2>7, NewRow
    <2>4. slot'[n] = row  BY <1>2, <2>2, OfflineTypes
    <2>5. slot'[n] # Free /\ slot'[n].ev = e  BY <2>1, <2>4, FreeIsNoRow
    <2>6. PushStep  BY <1>1, <2>2, <2>3, <2>5, GotoStep
    <2> QED BY <1>3, <1>4, <2>3, <2>6, ServerInv
  <1>7. CASE InsertOccupied(p)
    <2>1. Kept /\ slot' = slot  BY <1>3, <1>7, <1>f, SameKept DEF InsertOccupied, server
    <2>2. slot[n] # Free  BY <1>7 DEF InsertOccupied
    <2>0. PICK missing \in BOOLEAN :
            /\ CashMissing(e, missing)
            /\ \/ missing /\ Goto(p, "redispatch")
               \/ /\ ~missing /\ slot[n].ev \notin {e, NoId}
                  /\ \/ e \in Cash /\ Conclude(p, "replayed")
                     \/ e \notin Cash \ Unrecorded /\ Conclude(p, "occupied")
               \/ ~missing /\ slot[n].ev \in {e, NoId} /\ Proven(slot[n], e) /\ Conclude(p, "replayed")
               \/ ~missing /\ slot[n].ev \in {e, NoId} /\ ~Proven(slot[n], e) /\ Goto(p, "dispatch")
      BY <1>7 DEF InsertOccupied
    <2>3. \/ Goto(p, "redispatch")
          \/ Conclude(p, "replayed") /\ e \in Settled'
          \/ Conclude(p, "occupied")
          \/ Goto(p, "dispatch") /\ slot[n].ev \in {e, NoId}
      <3>1. Proven(slot[n], e) => e \in applied  BY <1>2, <2>2 DEF Proven, OInv, RowsApplied
      <3>2. applied \subseteq Settled'  BY <2>1, SettledStays DEF Settled
      <3>3. ASSUME ~missing, slot[n].ev \notin {e, NoId}, e \in Cash, e \notin applied
            PROVE  e \in Settled'
        <4>1. slot[n].ev \in Events
          <5>1. slot[n] \in Rows  BY <1>2, <2>2, OfflineTypes
          <5> QED BY <3>3, <5>1 DEF Rows
        <4>2. Used(slot[n].ev, n)  BY <2>2 DEF Used
        <4>3. StreamOf[slot[n].ev] # StreamOf[e]
          BY <1>2, <1>u, <3>3, <4>1, <4>2 DEF OInv, NumbersUnique
        <4>4. e \in Traced => faults' > 0
          BY <2>0, <3>3, OfflineTypes DEF CashMissing, Unrecorded
        <4>5. n <= stamp'[e]  BY <1>2, <1>3, <1>u DEF OInv, NumbersUnique
        <4> HIDE DEF e, n
        <4> QED BY <1>2, <2>1, <2>2, <3>3, <4>1, <4>3, <4>4, <4>5, NowMistaken
      <3> QED BY <2>0, <3>1, <3>2, <3>3
    <2>4. CASE Goto(p, "redispatch")
      <3>1. PushStep  BY <1>1, <2>1, <2>4, GotoStep
      <3> QED BY <1>3, <1>4, <2>1, <3>1, ServerInv
    <2>5. CASE Conclude(p, "replayed") /\ e \in Settled'
      <3>1. PushStep  BY <1>1, <2>1, <2>5, AnswerStep DEF Verdicts
      <3> QED BY <1>3, <1>4, <2>1, <3>1, ServerInv
    <2>6. CASE Conclude(p, "occupied")
      <3>1. PushStep  BY <1>1, <2>1, <2>6, AnswerStep DEF Verdicts
      <3> QED BY <1>3, <1>4, <2>1, <3>1, ServerInv
    <2>7. CASE Goto(p, "dispatch") /\ slot[n].ev \in {e, NoId}
      <3>1. slot[n].ev = e \/ slot[n].tomb  BY <1>2, <2>2, <2>7 DEF OInv, NamelessIsTomb
      <3>2. PushStep  BY <1>1, <2>1, <2>2, <2>7, <3>1, GotoStep
      <3> QED BY <1>3, <1>4, <2>1, <3>2, ServerInv
    <2> QED BY <2>3, <2>4, <2>5, <2>6, <2>7
  <1> QED BY <1>5, <1>6, <1>7

\* The handler succeeds: the event has been applied when its row is marked or its
\* answer given.
LEMMA DispatchInv ==
  ASSUME OInv, NEW p \in Pushes, DispatchOfflineEvent(p)
  PROVE  OInv'
  <1> DEFINE e == Item(p).ev
             n == Item(p).seq
  <1>1. /\ push[p] # Idle /\ push[p].todo # <<>> /\ push[p].at \in {"dispatch", "redispatch"}
        /\ applied' = applied \cup {e} /\ UNCHANGED <<slot, cursor, machine, faults>>
    BY DEF DispatchOfflineEvent, Pending
  <1>2. e \in Events /\ n \in Seqs  BY <1>1, PushType
  <1>3. Kept
    <2>1. slot \in [Seqs -> {Free} \cup Rows] /\ applied' \subseteq Events /\ dropped \subseteq Events
      BY <1>1, <1>2, OfflineTypes
    <2>2. RowsApplied' /\ NamelessIsTomb'  BY <1>1 DEF OInv, RowsApplied, NamelessIsTomb, Free
    <2>3. \A k \in Seqs : slot'[k] # Free /\ slot'[k].ev \in Events => Used(slot'[k].ev, k)
      BY <1>1 DEF Used
    <2>4. stamp' = stamp /\ dropped' = dropped  BY <1>1 DEF machine
    <2> QED BY <1>1, <2>1, <2>2, <2>3, <2>4, StampSame DEF Kept
  <1>4. CASE push[p].at = "dispatch"
    <2>1. Goto(p, "mark")  BY <1>4 DEF DispatchOfflineEvent
    <2>2. slot'[n] # Free /\ (slot'[n].ev = e \/ slot'[n].tomb)
      BY <1>1, <1>4 DEF OInv, RowAhead, Ahead, Item
    <2>3. PushStep  BY <1>1, <1>3, <2>1, <2>2, GotoStep
    <2> QED BY <1>1, <1>3, <2>3, OfflineTypes, ServerInv
  <1>5. CASE push[p].at # "dispatch"
    <2>1. Conclude(p, "accepted")  BY <1>5 DEF DispatchOfflineEvent
    <2>3. e \in Settled'  BY <1>1, <1>3, SettledStays
    <2>2. PushStep  BY <1>1, <1>3, <2>1, <2>3, AnswerStep DEF Verdicts
    <2> QED BY <1>1, <1>3, <2>2, OfflineTypes, ServerInv
  <1> QED BY <1>4, <1>5

LEMMA FailsInv ==
  ASSUME OInv, NEW p \in Pushes, NEW retryable \in BOOLEAN, DispatchFails(p, retryable),
         faults' \in {faults, faults + 1}, faults' \in 0..MaxFaults
  PROVE  OInv'
  <1> DEFINE n == Item(p).seq
             st == FailureStatus(retryable)
             v == IF retryable THEN "retry" ELSE "rejected"
  <1>1. /\ push[p] # Idle /\ push[p].todo # <<>> /\ UNCHANGED <<cursor, applied, machine>>
        /\ Break(p, v)
    BY DEF DispatchFails, Pending
  <1>2. n \in Seqs  BY <1>1, PushType
  <1>3. st \in {"failed_retryable", "rejected"} /\ v \in {"retry", "rejected"}  BY DEF FailureStatus
  <1>4. Kept
    <2>1. CASE push[p].at = "dispatch"
      <3>1. slot[n] # Free  BY <1>1, <2>1 DEF OInv, RowAhead, Ahead, Item
      <3>2. slot' = [slot EXCEPT ![n].status = st]  BY <2>1 DEF DispatchFails
      <3> HIDE DEF st
      <3> QED BY <1>1, <1>2, <1>3, <3>1, <3>2, RowStatus DEF machine
    <2>2. CASE push[p].at # "dispatch"
      <3>1. slot' = slot  BY <2>2 DEF DispatchFails
      <3> QED BY <1>1, <3>1, SameKept DEF machine
    <2> QED BY <2>1, <2>2
  <1> HIDE DEF v
  <1>5. PushStep  BY <1>1, <1>3, <1>4, AnswerStep DEF Verdicts
  <1> QED BY <1>1, <1>4, <1>5, OfflineTypes, ServerInv

\* A row is marked processed only after its event's effect, or it is a tombstone.
LEMMA MarkInv ==
  ASSUME OInv, NEW p \in Pushes, MarkProcessed(p)
  PROVE  OInv'
  <1> DEFINE e == Item(p).ev
             n == Item(p).seq
  <1>1. /\ push[p] # Idle /\ push[p].todo # <<>> /\ push[p].at = "mark"
        /\ UNCHANGED <<cursor, applied, machine>> /\ Conclude(p, "accepted")
    BY DEF MarkProcessed, Pending
  <1>2. n \in Seqs  BY <1>1, PushType
  <1>3. /\ slot[n] # Free /\ e \in applied
        /\ slot[n].ev = e \/ slot[n].tomb
    BY <1>1 DEF OInv, RowAhead, Ahead, Item
  <1>6. faults' \in {faults, faults + 1} /\ faults' \in 0..MaxFaults  BY OfflineTypes DEF MarkProcessed
  <1>4. Kept
    <2>1. CASE slot' = [slot EXCEPT ![n].status = "processed"]
      BY <1>1, <1>2, <1>3, <1>6, <2>1, RowStatus DEF machine
    <2>2. CASE slot' = slot  BY <1>1, <1>6, <2>2, SameKept DEF machine
    <2> QED BY <2>1, <2>2 DEF MarkProcessed
  <1>7. e \in Settled'  BY <1>3, <1>4, SettledStays DEF Settled
  <1>5. PushStep  BY <1>1, <1>4, <1>7, AnswerStep DEF Verdicts
  <1> QED BY <1>1, <1>4, <1>5, <1>6, OfflineTypes, ServerInv

LEMMA AdvanceInv ==
  ASSUME OInv, NEW p \in Pushes, AdvanceCursor(p)
  PROVE  OInv' /\ \A t \in Streams : cursor'[t] >= cursor[t]
  <1> DEFINE n == Item(p).seq
             o == push[p].out
  <1>1. /\ push[p] # Idle /\ push[p].todo # <<>> /\ Raise(push[p].stream, n)
        /\ push' = [push EXCEPT ![p].at = "next", ![p].todo = Tail(@), ![p].last = n]
        /\ UNCHANGED <<slot, applied, machine, faults>>
    BY DEF AdvanceCursor, Pending
  <1>2. push \in [Pushes -> {Idle} \cup Active] /\ push[p] \in Active /\ n \in Seqs
    BY <1>1, PushType DEF OInv, Shape
  <1>3. push[p].stream \in Streams /\ o \in SUBSET Answers  BY <1>2 DEF Active
  <1>4. Kept  BY <1>1, SameKept DEF machine
  <1>5. cursor' \in [Streams -> 0..MaxSeq] /\ \A t \in Streams : cursor'[t] >= cursor[t]
    BY <1>1, <1>2, <1>3, RaiseType
  <1>9. PushTrue(push[p], Settled', dropped')  BY <1>4, TrueStays DEF OInv, AnswersTrue
  <1>6. \A b \in o : /\ b.verdict \in {"accepted", "replayed"} => b.ev \in Settled'
                     /\ b.verdict = "abandoned" => b.ev \in dropped'
                     /\ b.verdict = "occupied" => StreamOf[b.ev] = push[p].stream
    BY <1>1, <1>9 DEF PushTrue
  <1>7. push' = [push EXCEPT ![p].todo = Tail(@), ![p].at = "next", ![p].last = n, ![p].out = o]
    BY <1>1, <1>2 DEF Active
  <1> HIDE DEF o
  <1>8. PushStep  BY <1>1, <1>3, <1>4, <1>6, <1>7, LastStep
  <1> QED BY <1>1, <1>4, <1>5, <1>8, OfflineTypes, ServerInv

-----------------------------------------------------------------------------
(* The machine's steps. *)

LEMMA EnqueueInv ==
  ASSUME OInv, NEW e \in Events, Enqueue(e)
  PROVE  OInv'
  <1> DEFINE n == next[StreamOf[e]]
  <1>1. StreamOf[e] \in Streams  BY OfflineSets
  <1>2. /\ stamp \in [Events -> 0..MaxSeq] /\ next \in [Streams -> 1..(MaxSeq + 1)] /\ done \subseteq Events
    BY DEF OInv, TypeOK
  <1>3. n \in 0..MaxSeq /\ n + 1 \in 1..(MaxSeq + 1)  BY <1>1, <1>2, OfflineLimits DEF Enqueue
  <1>4. stamp' = [stamp EXCEPT ![e] = n] /\ next' = [next EXCEPT ![StreamOf[e]] = n + 1]
    BY <1>2 DEF Enqueue
  <1> HIDE DEF n
  <1>5. stamp' \in [Events -> 0..MaxSeq] /\ next' \in [Streams -> 1..(MaxSeq + 1)]
    BY <1>2, <1>3, <1>4
  <1>6. UNCHANGED <<slot, cursor, applied, push, done, dropped, faults>>  BY DEF Enqueue, server
  <1>7. Kept
    <2>1. stamp[e] = 0  BY DEF Enqueue
    <2>2. \A f \in Events : stamp[f] \in 0..MaxSeq /\ stamp'[f] = IF f = e THEN n ELSE stamp[f]
      BY <1>2, <1>4
    <2>3. \A f \in Events : stamp'[f] \in Int /\ stamp[f] <= stamp'[f]
      BY <1>3, <2>1, <2>2, OfflineLimits
    <2> QED BY <1>6, <2>3, SameKept
  <1>8. PushStep  BY <1>6, <1>7, PushesStay
  <1>9. DoneIsApplied'  BY <1>6, <1>7, DoneStays DEF DoneIsApplied
  <1>10. NumbersUnique'
    <2> DEFINE s == StreamOf[e]
               es == {e}
    <2>1. n = next[s] /\ n <= MaxSeq  BY DEF n, Enqueue
    <2>2. \A f \in Events : stamp'[f] = IF f \in es THEN next[s] ELSE stamp[f]  BY <1>2, <1>4, <2>1
    <2>3. next'[s] = next[s] + 1 /\ \A t \in Streams : t # s => next'[t] = next[t]
      BY <1>1, <1>2, <1>4, <2>1
    <2>4. next'[s] >= next[s]  BY <1>3, <2>1, <2>3, OfflineLimits
    <2>5. s \in Streams /\ es \in SUBSET Events /\ (\A f \in es : StreamOf[f] = s) /\ \A f, g \in es : f = g
      BY <1>1
    <2> HIDE DEF es, s
    <2> QED BY <1>5, <1>7, <1>8, <2>1, <2>2, <2>3, <2>4, <2>5, StampInv
  <1> QED BY <1>2, <1>5, <1>6, <1>7, <1>8, <1>9, <1>10, OfflineTypes, StepInv

\* A batch holds queued events; the given-up ones among them are its tombstones.
LEMMA BatchItems ==
  ASSUME OInv, NEW s \in Streams, NEW es \in SUBSET Queued(s), NEW q \in Batches(es)
  PROVE  /\ q \in Seq(Items)
         /\ \A i \in 1..Len(q) : /\ q[i].tomb = (q[i].ev \in dropped) /\ q[i].ev \in es
                                 /\ StreamOf[q[i].ev] = s /\ stamp[q[i].ev] = q[i].seq
  <1>1. es \subseteq Events  BY DEF Queued
  <1>2. Cardinality(es) \in Nat  BY <1>1, OfflineSets, FS_Subset, FS_CardinalityType
  <1>3. ASSUME NEW e \in es  PROVE stamp[e] \in Seqs /\ StreamOf[e] = s
    BY <1>1, <1>3, OfflineLimits DEF Queued, Seqs, OInv, TypeOK
  <1>4. ASSUME NEW x \in Entries(es)
        PROVE  /\ x \in Items /\ x.tomb = (x.ev \in dropped) /\ x.ev \in es
               /\ StreamOf[x.ev] = s /\ stamp[x.ev] = x.seq
    <2>1. PICK e \in es : x = [ev |-> e, seq |-> stamp[e], tomb |-> e \in dropped]
      BY <1>4 DEF Entries
    <2>2. stamp[e] \in Seqs /\ e \in Events /\ (e \in dropped) \in BOOLEAN /\ StreamOf[e] = s
      BY <1>1, <1>3
    <2> DEFINE b == e \in dropped
    <2>4. x = [ev |-> e, seq |-> stamp[e], tomb |-> b] /\ b \in BOOLEAN  BY <2>1
    <2>3. x.tomb = b /\ x.ev = e /\ x.seq = stamp[e]  BY <2>1
    <2>6. x.tomb = (x.ev \in dropped)  BY <2>3, Zenon
    <2> HIDE DEF b
    <2>5. x \in Items  BY <2>2, <2>4 DEF Items
    <2> QED BY <2>2, <2>3, <2>5, <2>6
  <1>5. \A x \in Entries(es) : /\ x \in Items /\ x.tomb = (x.ev \in dropped) /\ x.ev \in es
                               /\ StreamOf[x.ev] = s /\ stamp[x.ev] = x.seq
    BY <1>4
  <1>6. q \in [1..Cardinality(es) -> Entries(es)]  BY DEF Batches
  <1>7. q \in Seq(Entries(es)) /\ Len(q) = Cardinality(es)  BY <1>2, <1>6, SeqDef, LenProperties
  <1>8. Entries(es) \subseteq Items  BY <1>5
  <1>9. q \in Seq(Items)  BY <1>2, <1>6, <1>7, <1>8
  <1>10. \A i \in 1..Len(q) : q[i] \in Entries(es)  BY <1>6, <1>7
  <1> HIDE DEF Entries
  <1> QED BY <1>5, <1>9, <1>10, Zenon

LEMMA PushInv ==
  ASSUME OInv, NEW p \in Pushes, NEW s \in Streams, PushOfflineEvents(p, s)
  PROVE  OInv'
  <1>0. PICK es \in SUBSET Queued(s) : \E q \in Batches(es) :
          push' = [push EXCEPT ![p] =
            [at |-> "next", stream |-> PushStream(es, s), last |-> cursor[PushStream(es, s)],
             out |-> {}, todo |-> q]]
    BY DEF PushOfflineEvents
  <1> DEFINE t == PushStream(es, s)
  <1>1. PICK q \in Batches(es) :
          push' = [push EXCEPT ![p] =
            [at |-> "next", stream |-> t, last |-> cursor[t], out |-> {}, todo |-> q]]
    BY <1>0
  <1>s. t \in Streams /\ (t # s => es \subseteq dropped)  BY OfflineSets DEF PushStream
  <1> HIDE DEF t
  <1> DEFINE r == [at |-> "next", stream |-> t, last |-> cursor[t], out |-> {}, todo |-> q]
  <1>2. /\ q \in Seq(Items)
        /\ \A i \in 1..Len(q) : /\ q[i].tomb = (q[i].ev \in dropped) /\ q[i].ev \in es
                                /\ StreamOf[q[i].ev] = s /\ stamp[q[i].ev] = q[i].seq
    BY BatchItems
  <1>3. cursor[t] \in 0..MaxSeq  BY <1>s, OfflineTypes
  <1>4. r \in Active /\ r.at = "next" /\ r.out = {} /\ r.todo = q /\ r.stream = t
    BY <1>2, <1>3, <1>s DEF Active
  <1>5. push' = [push EXCEPT ![p] = r]  BY <1>1
  <1> HIDE DEF r
  <1>6. UNCHANGED <<server, machine, faults>> /\ UNCHANGED <<slot, applied, dropped, stamp, cursor>>
    BY DEF PushOfflineEvents, server, machine
  <1>7. Kept  BY <1>6, SameKept
  <1>t. \A i \in 1..Len(q) : /\ q[i].tomb => q[i].ev \in dropped'
                             /\ ~q[i].tomb => StreamOf[q[i].ev] = t
    BY <1>2, <1>6, <1>s
  <1>8. PushTrue(r, Settled', dropped')  BY <1>4, <1>t DEF PushTrue
  <1>9. Ahead(r, slot', applied')  BY <1>4 DEF Ahead
  <1>11. Carries(r)  BY <1>2, <1>4 DEF Carries, Used
  <1>10. PushStep  BY <1>4, <1>5, <1>7, <1>8, <1>9, <1>11, PushGoes
  <1> QED BY <1>6, <1>7, <1>10, OfflineTypes, ServerInv

\* A set of answers has one with the smallest number.
LEMMA LeastAnswer ==
  ASSUME NEW A \in SUBSET Answers, A # {}
  PROVE  \E r \in A : \A o \in A : r.seq <= o.seq
  <1> DEFINE T == {a.seq : a \in A}
             R == {x \in Nat \X Nat : x[1] < x[2]}
  <1>1. IsWellFoundedOn(R, Nat)  BY NatLessThanWellFounded DEF OpToRel
  <1>2. T \subseteq Nat /\ T # {}  BY OfflineLimits DEF Answers, Seqs
  <1>r. \A j, k \in Nat : j < k => <<j, k>> \in R  OBVIOUS
  <1> HIDE DEF R, T
  <1>3. PICK m \in T : \A k \in T : ~(<<k, m>> \in R)  BY <1>1, <1>2, WFMin
  <1>4. \A k \in T : m <= k
    <2>1. ASSUME NEW k \in T PROVE m <= k
      <3>1. k \in Nat /\ m \in Nat /\ ~(k < m)  BY <1>2, <1>3, <1>r
      <3> QED BY <3>1
    <2> QED BY <2>1
  <1> QED BY <1>4 DEF T

\* A reply removes an event only with an answer that was true when it was given,
\* and what was applied or given up then still is.
LEMMA ReplyInv ==
  ASSUME OInv, NEW p \in Pushes, Reply(p)
  PROVE  OInv'
  <1> DEFINE out == push[p].out
             s == push[p].stream
             restamp == {r \in out : r.verdict = "occupied" /\ stamp[r.ev] = r.seq /\ r.ev \notin done}
             moved == IF restamp = {} THEN {} ELSE {CHOOSE r \in restamp : \A o \in restamp : r.seq <= o.seq}
             fin == Answered(out, {"accepted", "replayed", "abandoned"})
             up == Answered(out, {"rejected"}) \ done
  <1>1. push[p] # Idle  BY DEF Reply
  <1>2. push[p] \in Active /\ s \in Streams  BY <1>1, PushType DEF Active
  <1>3. /\ done' = done \cup fin /\ dropped' = dropped \cup up
        /\ push' = [push EXCEPT ![p] = Idle] /\ UNCHANGED <<slot, cursor, applied, faults>>
        /\ IF next[s] <= MaxSeq
           THEN /\ stamp' = [e \in Events |-> IF \E r \in moved : r.ev = e THEN next[s] ELSE stamp[e]]
                /\ next' = [next EXCEPT ![s] = @ + Cardinality(moved)]
           ELSE UNCHANGED <<stamp, next>>
    BY DEF Reply, server
  <1>t. PushTrue(push[p], Settled, dropped)  BY DEF OInv, AnswersTrue
  <1>4. fin \subseteq Events /\ up \subseteq Events /\ fin \subseteq Settled \cup dropped
    BY <1>1, <1>t DEF Answered, PushTrue
  <1> DEFINE es == {e \in Events : \E r \in moved : r.ev = e}
  <1>e. /\ \A e \in es : StreamOf[e] = s /\ stamp[e] \in Seqs
        /\ \A e, f \in es : e = f
        /\ es # {} => Cardinality(moved) = 1
    <2>0. restamp \in SUBSET Answers  BY <1>2 DEF Active
    <2>1. moved \subseteq restamp  BY <2>0, LeastAnswer
    <2>2. \A r \in restamp : StreamOf[r.ev] = s /\ stamp[r.ev] \in Seqs
      BY <1>1, <1>t, <2>0 DEF PushTrue, Answers
    <2>3. moved = {} \/ \E r : moved = {r}  OBVIOUS
    <2> HIDE DEF moved, restamp
    <2>4. es # {} => Cardinality(moved) = 1  BY <2>3, FS_Singleton
    <2> QED BY <2>1, <2>2, <2>3, <2>4
  <1>5. Cardinality(moved) \in {0, 1}
    <2>1. moved = {} \/ \E r : moved = {r}  OBVIOUS
    <2> HIDE DEF moved
    <2> QED BY <2>1, FS_EmptySet, FS_Singleton
  <1>es. \A e \in Events : (\E r \in moved : r.ev = e) <=> e \in es  OBVIOUS
  <1> HIDE DEF moved, fin, up
  <1>6. /\ stamp \in [Events -> 0..MaxSeq] /\ next \in [Streams -> 1..(MaxSeq + 1)] /\ done \subseteq Events
    BY DEF OInv, TypeOK
  <1>7. stamp' \in [Events -> 0..MaxSeq] /\ next' \in [Streams -> 1..(MaxSeq + 1)]
    <2>1. CASE next[s] <= MaxSeq
      <3> DEFINE n == next[s]
                 m == next[s] + Cardinality(moved)
      <3>1. n \in 0..MaxSeq /\ m \in 1..(MaxSeq + 1)  BY <1>2, <1>5, <1>6, <2>1, OfflineLimits
      <3>2. stamp' = [e \in Events |-> IF \E r \in moved : r.ev = e THEN n ELSE stamp[e]]
        BY <1>3, <2>1
      <3>3. next' = [next EXCEPT ![s] = m]  BY <1>3, <1>6, <2>1
      <3> HIDE DEF n, m
      <3> QED BY <1>6, <3>1, <3>2, <3>3
    <2>2. CASE ~(next[s] <= MaxSeq)  BY <1>3, <1>6, <2>2
    <2> QED BY <2>1, <2>2
  <1>8. done' \subseteq Events  BY <1>3, <1>4, <1>6
  <1>10. Kept
    <2>1. dropped \subseteq dropped' /\ dropped' \subseteq Events  BY <1>3, <1>4, OfflineTypes
    <2>2. RowsApplied' /\ NamelessIsTomb'  BY <1>3 DEF OInv, RowsApplied, NamelessIsTomb, Free
    <2>3. \A k \in Seqs : slot'[k] # Free /\ slot'[k].ev \in Events => Used(slot'[k].ev, k)
      BY <1>3 DEF Used
    <2>4. \A e \in Events : stamp[e] \in Int /\ stamp'[e] \in Int /\ stamp[e] <= stamp'[e]
      <3>1. CASE next[s] <= MaxSeq
        <4>1. \A e \in es : stamp[e] < next[s]
          BY <1>e DEF OInv, NumbersUnique, Used
        <4>2. \A e \in Events : stamp'[e] = IF e \in es THEN next[s] ELSE stamp[e]
          BY <1>3, <1>es, <3>1
        <4>3. next[s] \in Int /\ \A e \in Events : stamp[e] \in Int  BY <1>2, <1>6, OfflineLimits
        <4> HIDE DEF es
        <4> QED BY <4>1, <4>2, <4>3
      <3>2. CASE ~(next[s] <= MaxSeq)  BY <1>3, <3>2, StampSame
      <3> QED BY <3>1, <3>2
    <2> QED BY <1>3, <2>1, <2>2, <2>3, <2>4, OfflineTypes DEF Kept
  <1>9. DoneIsApplied'
    <2>1. \A e \in done : e \in applied' \cup dropped' \/ Mistaken(e)'  BY <1>10, DoneStays
    <2>2. fin \subseteq Settled' \cup dropped'  BY <1>4, <1>10, SettledStays DEF Kept
    <2>3. \A e \in fin : e \in applied' \cup dropped' \/ Mistaken(e)'  BY <2>2 DEF Settled
    <2> QED BY <1>3, <2>1, <2>3 DEF DoneIsApplied
  <1>11. PushStep  BY <1>3, <1>10, IdlePush, PushGoes
  <1>12. NumbersUnique'
    <2>0. next[s] \in Int /\ MaxSeq \in Int  BY <1>2, <1>6, OfflineLimits
    <2>1. CASE next[s] <= MaxSeq
      <3>1. es \in SUBSET Events  OBVIOUS
      <3>2. \A e \in Events : stamp'[e] = IF e \in es THEN next[s] ELSE stamp[e]
        BY <1>3, <1>es, <2>1
      <3>3. /\ next'[s] = next[s] + Cardinality(moved)
            /\ \A t \in Streams : t # s => next'[t] = next[t]
        BY <1>2, <1>3, <1>6, <2>1
      <3>4. next'[s] >= next[s] /\ (es # {} => next'[s] = next[s] + 1)  BY <1>5, <1>e, <2>0, <3>3
      <3> HIDE DEF es
      <3> QED BY <1>2, <1>7, <1>e, <1>10, <1>11, <2>1, <3>1, <3>2, <3>3, <3>4, StampInv
    <2>2. CASE ~(next[s] <= MaxSeq)
      <3>1. stamp' = stamp /\ next' = next  BY <1>3, <2>2
      <3>2. \A e \in Events, n \in Seqs : Used(e, n)' => Used(e, n)
        <4>1. ASSUME NEW e \in Events, NEW n \in Seqs, Used(e, n)' PROVE Used(e, n)
          <5>1. Used(e, n) \/ stamp[e] = n  BY <1>10, <1>11, <3>1, <4>1, UsedBefore
          <5> QED BY <5>1 DEF Used
        <4> QED BY <4>1
      <3> QED BY <3>1, <3>2, UsedShrinks
    <2> QED BY <2>1, <2>2
  <1> QED BY <1>3, <1>7, <1>8, <1>9, <1>10, <1>11, <1>12, OfflineTypes, StepInv

-----------------------------------------------------------------------------
(* The theorems. *)

LEMMA OfflineInit == Init => OInv
  <1> SUFFICES ASSUME Init PROVE OInv  OBVIOUS
  <1>1. TypeOK  BY OfflineLimits DEF Init, TypeOK
  <1>2. Shape  BY DEF Init, Shape
  <1>3. RowsApplied /\ NamelessIsTomb  BY DEF Init, RowsApplied, NamelessIsTomb
  <1>4. AnswersTrue /\ RowAhead
    <2>1. \A p \in Pushes : push[p] = Idle  BY DEF Init
    <2> QED BY <2>1, IdlePush DEF AnswersTrue, RowAhead
  <1>5. DoneIsApplied  BY DEF Init, DoneIsApplied
  <1>6. NumbersUnique
    <2>1. ASSUME NEW e \in Events, NEW n \in Seqs PROVE ~Used(e, n)
      <3>1. n # 0 /\ stamp[e] = 0 /\ slot[n] = Free  BY OfflineLimits DEF Init, Seqs
      <3>2. \A p \in Pushes : push[p] = Idle  BY DEF Init
      <3> QED BY <3>1, <3>2 DEF Used
    <2> QED BY <2>1 DEF NumbersUnique
  <1> QED BY <1>1, <1>2, <1>3, <1>4, <1>5, <1>6 DEF OInv

LEMMA OfflineStep ==
  ASSUME OInv, [Next]_vars
  PROVE  OInv'
  <1>1. CASE UNCHANGED vars
    <2>1. UNCHANGED <<slot, cursor, applied, push, stamp, next, done, dropped, faults>>
      BY <1>1 DEF vars, server, machine
    <2>2. Kept  BY <2>1, SameKept
    <2>3. PushStep  BY <2>1, <2>2, PushesStay
    <2> QED BY <2>1, <2>2, <2>3, OfflineTypes, ServerInv DEF machine
  <1>2. CASE \E e \in Events : Enqueue(e)  BY <1>2, EnqueueInv
  <1>3. CASE \E p \in Pushes, s \in Streams : PushOfflineEvents(p, s)  BY <1>3, PushInv
  <1>4. ASSUME NEW p \in Pushes, Handle(p)  PROVE OInv'
    <2>1. CASE DispatchRejected(p)
      <3>1. DispatchFails(p, FALSE) /\ faults' \in {faults, faults + 1} /\ faults' \in 0..MaxFaults
        BY <2>1, OfflineTypes DEF DispatchRejected
      <3> QED BY <3>1, FailsInv
    <2> QED BY <1>4, <2>1, AbandonedInv, QuietInv, LookUpInv, InsertInv, DispatchInv, MarkInv,
               AdvanceInv, ReplyInv DEF Handle
  <1>5. ASSUME NEW p \in Pushes, DispatchUnavailable(p)  PROVE OInv'
    <2>1. DispatchFails(p, TRUE) /\ faults' \in {faults, faults + 1} /\ faults' \in 0..MaxFaults
      BY <1>5, OfflineTypes DEF DispatchUnavailable
    <2> QED BY <2>1, FailsInv
  <1>6. CASE \E p \in Pushes : StatementFails(p) \/ PushLost(p)  BY <1>6, QuietInv
  <1> QED BY <1>1, <1>2, <1>3, <1>4, <1>5, <1>6 DEF Next

\* The invariant holds in every behaviour of the replay: answers in flight are true of
\* what was applied and given up, although rows are shared by overlapping pushes.
THEOREM OfflineInvariant == Spec => []OInv
  BY OfflineInit, OfflineStep, PTL DEF Spec

\* Rows, cursors, pushes and the machine's queue keep their types.
THEOREM OfflineTypeCorrect == Spec => []TypeOK
  <1>1. OInv => TypeOK  BY DEF OInv
  <1> QED BY <1>1, OfflineInvariant, PTL

\* An event leaves the machine's queue only when it has been applied or the machine gave
\* it up, for any number of overlapping pushes, lost replies and failed statements; the
\* one exception is a cash report that met its number in the slot of another stream's
\* event while the server had no way to look for its row or failed to.
THEOREM NoEventVanishes == Spec => []DoneIsApplied
  <1>1. OInv => DoneIsApplied  BY DEF OInv
  <1> QED BY <1>1, OfflineInvariant, PTL

\* Only tombstones and AdvanceCursor write a cursor, and both keep the greater number.
LEMMA CursorStep ==
  ASSUME OInv, [Next]_vars
  PROVE  \A s \in Streams : cursor'[s] >= cursor[s]
  <1>1. CASE cursor' = cursor
    <2>1. \A s \in Streams : cursor[s] \in Int  BY OfflineTypes, OfflineLimits
    <2> QED BY <1>1, <2>1
  <1>2. ASSUME NEW p \in Pushes, Handle(p)
        PROVE  cursor' = cursor \/ ApplyAbandoned(p) \/ AdvanceCursor(p)
    BY <1>2 DEF Handle, server, StaleOccupied, StaleReplayed, OutOfOrder, LookUp, InsertDuplicateId,
             InsertNew, InsertOccupied, DispatchOfflineEvent, DispatchRejected, DispatchFails,
             MarkProcessed, Reply
  <1>3. ASSUME NEW p \in Pushes, DispatchUnavailable(p) \/ StatementFails(p) \/ PushLost(p)
        PROVE  cursor' = cursor
    BY <1>3 DEF DispatchUnavailable, DispatchFails, StatementFails, PushLost, server
  <1>4. ASSUME NEW p \in Pushes, NEW s \in Streams, PushOfflineEvents(p, s)
        PROVE  cursor' = cursor
    BY <1>4 DEF PushOfflineEvents, server
  <1>5. ASSUME NEW e \in Events, Enqueue(e)
        PROVE  cursor' = cursor
    BY <1>5 DEF Enqueue, server
  <1>6. UNCHANGED vars => cursor' = cursor  BY DEF vars, server
  <1>7. cursor' = cursor \/ \E p \in Pushes : ApplyAbandoned(p) \/ AdvanceCursor(p)
    BY <1>2, <1>3, <1>4, <1>5, <1>6 DEF Next
  <1> QED BY <1>1, <1>7, AbandonedInv, AdvanceInv

\* A stream's cursor never moves back, however many pushes write it from what they have
\* read before.
THEOREM CursorNeverMovesBack == Spec => CursorMonotone
  <1>1. OInv /\ [Next]_vars => [\A s \in Streams : cursor'[s] >= cursor[s]]_vars
    BY CursorStep
  <1> QED BY <1>1, OfflineInvariant, PTL DEF Spec, CursorMonotone

=============================================================================
