----------------------------- MODULE QueueProofs -----------------------------
(***************************************************************************)
(* The rings of Fifo implement bounded queues: a ring with its indices,    *)
(* queue_full and the low water mark stands for the sequence Contents, to  *)
(* which the critical section of enqueue appends and from which the one of *)
(* dequeue takes the head; no other step changes it.                       *)
(***************************************************************************)
EXTENDS FifoProofs, SequenceTheorems

Stored == Msgs \cup {NoMsg}

(* The slot of the i-th message behind index c, without the remainder. *)
SlotOf(c, i) == IF c + i - 1 < NumEnts THEN c + i - 1 ELSE c + i - 1 - NumEnts

(* The indices of a ring are those of its slots. *)
LEMMA RingFields ==
  ASSUME NEW r \in Rings
  PROVE  /\ NumEnts \in Nat \ {0} /\ LowWaterMark \in Nat \ {0}
         /\ r.producer \in 0 .. NumEnts - 1 /\ r.consumer \in 0 .. NumEnts - 1
         /\ r.queue_full \in BOOLEAN
         /\ r.queue \in [0 .. NumEnts - 1 -> Stored]
BY RingAssumption DEF Rings, Slots, Stored

(* The index that follows x. *)
LEMMA Successor ==
  ASSUME NumEnts \in Nat \ {0}, NEW x \in 0 .. NumEnts - 1
  PROVE  (x + 1) % NumEnts = IF x = NumEnts - 1 THEN 0 ELSE x + 1
<1>0. PICK y : y = x + 1
  OBVIOUS
<1>1. y \in 0 .. 2 * NumEnts - 1
  BY <1>0
<1>2. y % NumEnts = IF y < NumEnts THEN y ELSE y - NumEnts
  BY Zenon, <1>1, SmallMod
<1>3. (IF y < NumEnts THEN y ELSE y - NumEnts)
        = IF x = NumEnts - 1 THEN 0 ELSE x + 1
  BY <1>0
<1> QED BY <1>0, <1>2, <1>3, Zenon

(* The distance between two indices. *)
LEMMA DistanceIs ==
  ASSUME NumEnts \in Nat \ {0}, NEW p \in 0 .. NumEnts - 1,
         NEW c \in 0 .. NumEnts - 1
  PROVE  Distance(p, c) = IF p < c THEN p - c + NumEnts ELSE p - c
<1> DEFINE x == p - c + NumEnts
<1>1. x \in 0 .. 2 * NumEnts - 1
  OBVIOUS
<1>2. x % NumEnts = IF x < NumEnts THEN x ELSE x - NumEnts
  BY ZenonT(30), <1>1, SmallMod
<1>3. (IF x < NumEnts THEN x ELSE x - NumEnts)
        = IF p < c THEN p - c + NumEnts ELSE p - c
  OBVIOUS
<1>4. x % NumEnts = IF p < c THEN p - c + NumEnts ELSE p - c
  BY <1>2, <1>3, Zenon
<1> QED BY <1>4 DEF Distance

(* How many messages a ring holds, and where. *)
LEMMA ContentsIs ==
  ASSUME NEW r \in Rings
  PROVE  /\ num_in_queue(r) \in 0 .. NumEnts
         /\ Contents(r) \in Seq(Stored)
         /\ Len(Contents(r)) = num_in_queue(r)
         /\ \A i \in 1 .. num_in_queue(r) :
              Contents(r)[i] = r.queue[SlotOf(r.consumer, i)]
<1>0. /\ NumEnts \in Nat \ {0}
      /\ r.producer \in 0 .. NumEnts - 1 /\ r.consumer \in 0 .. NumEnts - 1
      /\ r.queue \in [0 .. NumEnts - 1 -> Stored]
  BY RingFields
<1>1. num_in_queue(r) \in 0 .. NumEnts
  <2>1. Distance(r.producer, r.consumer) =
          IF r.producer < r.consumer THEN r.producer - r.consumer + NumEnts
          ELSE r.producer - r.consumer
    BY <1>0, DistanceIs, Zenon
  <2>2. Distance(r.producer, r.consumer) \in 0 .. NumEnts
    BY <1>0, <2>1
  <2> QED BY <1>0, <2>2 DEF num_in_queue
<1>2. ASSUME NEW i \in 1 .. num_in_queue(r)
      PROVE  /\ (r.consumer + i - 1) % NumEnts = SlotOf(r.consumer, i)
             /\ SlotOf(r.consumer, i) \in 0 .. NumEnts - 1
  <2>0. PICK y : y = r.consumer + i - 1
    OBVIOUS
  <2>1. y \in 0 .. 2 * NumEnts - 1 /\ i \in 1 .. NumEnts
    BY <1>0, <1>1, <2>0
  <2>2. y % NumEnts = IF y < NumEnts THEN y ELSE y - NumEnts
    BY Zenon, <1>0, <2>1, SmallMod
  <2>3. (r.consumer + i - 1) % NumEnts = SlotOf(r.consumer, i)
    <3>1. y % NumEnts = (r.consumer + i - 1) % NumEnts
      BY <2>0, Zenon
    <3>2. SlotOf(r.consumer, i) = IF y < NumEnts THEN y ELSE y - NumEnts
      BY <1>0, <2>0, <2>1 DEF SlotOf
    <3> QED BY <2>2, <3>1, <3>2, Zenon
  <2>4. SlotOf(r.consumer, i) \in 0 .. NumEnts - 1
    BY <1>0, <2>1 DEF SlotOf
  <2> QED BY <2>3, <2>4
<1>3. Contents(r) \in [1 .. num_in_queue(r) -> Stored]
  BY <1>0, <1>2 DEF Contents
<1>4. num_in_queue(r) \in Nat
  BY <1>0, <1>1
<1>5. Contents(r) \in Seq(Stored)
  BY <1>3, <1>4, SeqDef
<1>6. DOMAIN Contents(r) = 1 .. num_in_queue(r)
  BY <1>3
<1>7. Len(Contents(r)) = num_in_queue(r)
  BY <1>4, <1>5, <1>6, LenProperties
<1>8. \A i \in 1 .. num_in_queue(r) :
        Contents(r)[i] = r.queue[SlotOf(r.consumer, i)]
  BY <1>2 DEF Contents
<1> QED BY <1>1, <1>5, <1>7, <1>8

(* The number of messages, without the remainder. *)
LEMMA NumIs ==
  ASSUME NEW r \in Rings
  PROVE  num_in_queue(r) =
           IF r.producer = r.consumer /\ r.queue_full THEN NumEnts
           ELSE IF r.producer < r.consumer
                  THEN r.producer - r.consumer + NumEnts
                  ELSE r.producer - r.consumer
<1>1. Distance(r.producer, r.consumer) =
        IF r.producer < r.consumer THEN r.producer - r.consumer + NumEnts
        ELSE r.producer - r.consumer
  BY RingFields, DistanceIs
<1> QED BY <1>1, Zenon DEF num_in_queue

(* The slot at the producer index p is the first one behind the n messages *)
(* that begin at the consumer index c.                                     *)
LEMMA FreeSlot ==
  ASSUME NumEnts \in Nat \ {0}, NEW p \in 0 .. NumEnts - 1,
         NEW c \in 0 .. NumEnts - 1, NEW n \in 0 .. NumEnts - 1,
         n = IF p < c THEN p - c + NumEnts ELSE p - c
  PROVE  /\ SlotOf(c, n + 1) = p
         /\ \A i \in 1 .. n : SlotOf(c, i) # p
<1>1. CASE p < c
  BY <1>1 DEF SlotOf
<1>2. CASE ~ (p < c)
  BY <1>2 DEF SlotOf
<1> QED BY <1>1, <1>2

-----------------------------------------------------------------------------
(* Enqueue on a ring that is not full appends to its contents. *)
LEMMA PushAppends ==
  ASSUME NEW r \in Rings, ~ is_full(r), NEW m \in Msgs
  PROVE  /\ Len(Contents(r)) < NumEnts
         /\ Contents(Push(r, m)) = Append(Contents(r), m)
<1>1. PICK s : s = Push(r, m)
  OBVIOUS
<1>2. PICK n : n = num_in_queue(r)
  OBVIOUS
<1>3. s \in Rings
  BY <1>1, RingTypes
<1>4. /\ NumEnts \in Nat \ {0}
      /\ r.producer \in 0 .. NumEnts - 1 /\ r.consumer \in 0 .. NumEnts - 1
      /\ r.queue_full \in BOOLEAN
      /\ r.queue \in [0 .. NumEnts - 1 -> Stored]
  BY RingFields
<1>5. (r.producer + 1) % NumEnts =
        IF r.producer = NumEnts - 1 THEN 0 ELSE r.producer + 1
  BY <1>4, Successor
<1>6. /\ s.consumer = r.consumer
      /\ s.producer = (r.producer + 1) % NumEnts
      /\ s.queue_full <=> r.queue_full \/ r.consumer = (r.producer + 1) % NumEnts
      /\ s.queue = [r.queue EXCEPT ![r.producer] = m]
  BY Zenon, <1>1 DEF Push, Rings
<1>7. n = IF r.producer < r.consumer THEN r.producer - r.consumer + NumEnts
          ELSE r.producer - r.consumer
  BY <1>2, NumIs DEF is_full
<1>8. n \in 0 .. NumEnts - 1
  BY <1>4, <1>7
<1>9. num_in_queue(s) = n + 1
  <2>1. num_in_queue(s) =
          IF s.producer = s.consumer /\ s.queue_full THEN NumEnts
          ELSE IF s.producer < s.consumer
                 THEN s.producer - s.consumer + NumEnts
                 ELSE s.producer - s.consumer
    BY <1>3, NumIs
  <2>2. CASE s.producer = s.consumer
    <3>1. num_in_queue(s) = NumEnts
      BY <1>6, <2>1, <2>2
    <3>2. r.consumer = IF r.producer = NumEnts - 1 THEN 0 ELSE r.producer + 1
      BY <1>5, <1>6, <2>2
    <3> QED BY <1>4, <1>7, <3>1, <3>2
  <2>3. CASE s.producer # s.consumer
    <3>1. num_in_queue(s) = IF s.producer < r.consumer
                              THEN s.producer - r.consumer + NumEnts
                              ELSE s.producer - r.consumer
      BY <1>6, <2>1, <2>3
    <3>2. s.producer = IF r.producer = NumEnts - 1 THEN 0 ELSE r.producer + 1
      BY <1>5, <1>6
    <3>3. s.producer # r.consumer
      BY <1>6, <2>3
    <3>4. CASE r.producer = NumEnts - 1
      BY <1>4, <1>7, <3>1, <3>2, <3>3, <3>4
    <3>5. CASE r.producer # NumEnts - 1
      BY <1>4, <1>7, <3>1, <3>2, <3>3, <3>5
    <3> QED BY <3>4, <3>5
  <2> QED BY <2>2, <2>3
<1>10. /\ Contents(r) \in Seq(Stored) /\ Len(Contents(r)) = n
       /\ \A i \in 1 .. n : Contents(r)[i] = r.queue[SlotOf(r.consumer, i)]
  BY <1>2, ContentsIs
<1>11. /\ Contents(s) \in Seq(Stored) /\ Len(Contents(s)) = n + 1
       /\ \A i \in 1 .. n + 1 :
            Contents(s)[i] = s.queue[SlotOf(r.consumer, i)]
  <2>1. /\ Contents(s) \in Seq(Stored) /\ Len(Contents(s)) = num_in_queue(s)
        /\ \A i \in 1 .. num_in_queue(s) :
             Contents(s)[i] = s.queue[SlotOf(s.consumer, i)]
    BY <1>3, ContentsIs
  <2>2. s.consumer = r.consumer
    BY <1>6
  <2> QED BY <1>9, <2>1, <2>2
<1>12. /\ Append(Contents(r), m) \in Seq(Stored)
       /\ Len(Append(Contents(r), m)) = n + 1
       /\ \A i \in 1 .. n : Append(Contents(r), m)[i] = Contents(r)[i]
       /\ Append(Contents(r), m)[n + 1] = m
  <2>1. m \in Stored
    BY DEF Stored
  <2> QED BY <1>10, <2>1, AppendProperties
<1>13. ASSUME NEW i \in 1 .. n + 1
       PROVE  Contents(s)[i] = Append(Contents(r), m)[i]
  <2>1. SlotOf(r.consumer, i) \in 0 .. NumEnts - 1
    BY <1>4, <1>8 DEF SlotOf
  <2>2. CASE i = n + 1
    <3>1. SlotOf(r.consumer, i) = r.producer
      BY <1>4, <1>7, <1>8, <2>2, FreeSlot
    <3> QED BY <1>4, <1>6, <1>11, <1>12, <2>2, <3>1
  <2>3. CASE i \in 1 .. n
    <3>1. SlotOf(r.consumer, i) # r.producer
      BY <1>4, <1>7, <1>8, <2>3, FreeSlot
    <3>2. s.queue[SlotOf(r.consumer, i)] = r.queue[SlotOf(r.consumer, i)]
      BY <1>4, <1>6, <2>1, <3>1
    <3> QED BY <1>10, <1>11, <1>12, <2>3, <3>2
  <2>4. i = n + 1 \/ i \in 1 .. n
    BY <1>4, <1>8
  <2> QED BY Zenon, <2>2, <2>3, <2>4
<1>14. Contents(s) = Append(Contents(r), m)
  BY <1>11, <1>12, <1>13, SeqEqual
<1> QED BY <1>1, <1>4, <1>8, <1>10, <1>14

(* Dequeue from a ring that is not empty hands out the head of its         *)
(* contents and leaves the tail, wherever queue_full is cleared.           *)
LEMMA PopTakesHead ==
  ASSUME NEW r \in Rings, ~ is_empty(r)
  PROVE  /\ Contents(r) # << >>
         /\ r.queue[r.consumer] = Head(Contents(r))
         /\ Contents(Pop(r)) = Tail(Contents(r))
<1>1. PICK s : s = Pop(r)
  OBVIOUS
<1>2. PICK n : n = num_in_queue(r)
  OBVIOUS
<1>3. s \in Rings
  BY <1>1, RingTypes
<1>4. /\ NumEnts \in Nat \ {0} /\ LowWaterMark \in Nat \ {0}
      /\ r.producer \in 0 .. NumEnts - 1 /\ r.consumer \in 0 .. NumEnts - 1
      /\ r.queue_full \in BOOLEAN
      /\ r.queue \in [0 .. NumEnts - 1 -> Stored]
  BY RingFields
<1>5. (r.consumer + 1) % NumEnts =
        IF r.consumer = NumEnts - 1 THEN 0 ELSE r.consumer + 1
  BY <1>4, Successor
<1>6. /\ s.consumer = (r.consumer + 1) % NumEnts
      /\ s.producer = r.producer
      /\ s.queue_full <=>
           r.queue_full /\ Distance(r.producer, s.consumer) >= LowWaterMark
      /\ s.queue = r.queue
  BY Zenon, <1>1 DEF Pop, Rings
<1>7. n = IF r.producer = r.consumer THEN NumEnts
          ELSE IF r.producer < r.consumer
                 THEN r.producer - r.consumer + NumEnts
                 ELSE r.producer - r.consumer
  BY <1>2, NumIs DEF is_empty
<1>8. n \in 1 .. NumEnts
  BY <1>4, <1>7
<1>9. num_in_queue(s) = n - 1
  <2>1. num_in_queue(s) =
          IF s.producer = s.consumer /\ s.queue_full THEN NumEnts
          ELSE IF s.producer < s.consumer
                 THEN s.producer - s.consumer + NumEnts
                 ELSE s.producer - s.consumer
    BY <1>3, NumIs
  <2>2. s.consumer = IF r.consumer = NumEnts - 1 THEN 0 ELSE r.consumer + 1
    BY <1>5, <1>6
  <2>3. CASE s.producer = s.consumer
    <3>1. Distance(r.producer, s.consumer) = 0
      <4>1. s.consumer \in 0 .. NumEnts - 1
        BY <1>4, <2>2
      <4> QED BY <1>4, <1>6, <2>3, <4>1, DistanceIs
    <3>2. ~ s.queue_full
      BY <1>4, <1>6, <3>1
    <3>3. num_in_queue(s) = 0
      BY <1>4, <1>6, <2>1, <2>3, <3>2
    <3>4. r.producer = IF r.consumer = NumEnts - 1 THEN 0 ELSE r.consumer + 1
      BY <1>6, <2>2, <2>3
    <3> QED BY <1>4, <1>7, <3>3, <3>4
  <2>4. CASE s.producer # s.consumer
    <3>1. num_in_queue(s) = IF r.producer < s.consumer
                              THEN r.producer - s.consumer + NumEnts
                              ELSE r.producer - s.consumer
      BY <1>6, <2>1, <2>4
    <3>2. r.producer # s.consumer
      BY <1>6, <2>4
    <3> QED BY <1>4, <1>7, <2>2, <3>1, <3>2
  <2> QED BY <2>3, <2>4
<1>10. /\ Contents(r) \in Seq(Stored) /\ Len(Contents(r)) = n
       /\ \A i \in 1 .. n : Contents(r)[i] = r.queue[SlotOf(r.consumer, i)]
  BY <1>2, ContentsIs
<1>11. /\ Contents(s) \in Seq(Stored) /\ Len(Contents(s)) = n - 1
       /\ \A i \in 1 .. n - 1 :
            Contents(s)[i] = r.queue[SlotOf(s.consumer, i)]
  BY <1>3, <1>6, <1>9, ContentsIs
<1>12. Contents(r) # << >>
  BY <1>4, <1>8, <1>10, EmptySeq
<1>13. /\ Tail(Contents(r)) \in Seq(Stored) /\ Len(Tail(Contents(r))) = n - 1
       /\ \A i \in 1 .. n - 1 : Tail(Contents(r))[i] = Contents(r)[i + 1]
  BY <1>10, <1>12, HeadTailProperties
<1>14. ASSUME NEW i \in 1 .. n - 1
       PROVE  Contents(s)[i] = Tail(Contents(r))[i]
  <2>1. s.consumer = IF r.consumer = NumEnts - 1 THEN 0 ELSE r.consumer + 1
    BY <1>5, <1>6
  <2>2. SlotOf(s.consumer, i) = SlotOf(r.consumer, i + 1)
    BY <1>4, <1>8, <2>1 DEF SlotOf
  <2>3. i + 1 \in 1 .. n
    BY <1>4, <1>8
  <2> QED BY <1>10, <1>11, <1>13, <2>2, <2>3
<1>15. Contents(s) = Tail(Contents(r))
  BY <1>11, <1>13, <1>14, SeqEqual
<1>16. r.queue[r.consumer] = Head(Contents(r))
  <2>1. Head(Contents(r)) = Contents(r)[1]
    BY <1>10, <1>12
  <2>2. SlotOf(r.consumer, 1) = r.consumer /\ 1 \in 1 .. n
    BY <1>4, <1>8 DEF SlotOf
  <2> QED BY <1>10, <2>1, <2>2
<1> QED BY <1>1, <1>12, <1>15, <1>16

-----------------------------------------------------------------------------
(* The two critical sections that change a ring. *)
Pushes(f, m) ==
  /\ ~ is_full(fifo[f])
  /\ fifo' = [fifo EXCEPT ![f] = Push(fifo[f], m)]
  /\ UNCHANGED out

Pops(f) ==
  /\ ~ is_empty(fifo[f])
  /\ fifo' = [fifo EXCEPT ![f] = Pop(fifo[f])]
  /\ out' = [out EXCEPT ![f] = fifo[f].queue[fifo[f].consumer]]

RingStep ==
  \/ UNCHANGED fifoVars
  \/ \E f \in Fifos : Pops(f) \/ \E m \in Msgs : Pushes(f, m)

(* Every step of a thread is one of them, or changes no ring. *)
LEMMA StepsOfRings ==
  ASSUME Inv, [Next]_vars
  PROVE  RingStep
<1>1. ASSUME NEW t \in Threads, NEW f \in Fifos, NEW m \in Msgs, NEW w,
             enqueue(t, f, m, w)
      PROVE  RingStep
  BY <1>1 DEF enqueue, EnqueueWork, RingStep, Pushes, fifoVars
<1>2. ASSUME NEW t \in Threads, NEW f \in Fifos, NEW w, dequeue(t, f, w)
      PROVE  RingStep
  BY <1>2 DEF dequeue, DequeueWork, RingStep, Pops, fifoVars
<1>3. ASSUME NEW t \in Threads, Call(t) PROVE RingStep
  <2>1. CASE \E g \in Pollers, v \in NonFifoNums : poll_group_signal(t, g, v)
    BY <2>1 DEF poll_group_signal, RingStep
  <2>2. CASE \E w \in WaitModes : poll(t, w)
    BY <2>2 DEF poll, RingStep
  <2> QED BY <1>1, <1>2, <1>3, <2>1, <2>2 DEF Call
<1>4. ASSUME NEW t \in Threads, Configure(t) \/ Deconfigure(t) PROVE RingStep
  <2>1. UNCHANGED fifoVars
    BY ZenonT(30), <1>4 DEF Configure, Deconfigure, bind_to_read_poll, bind_to_write_poll,
                unbind_from_read_poll, unbind_from_write_poll,
                enable_read_poll, enable_write_poll, enable_poll,
                enable_nonfifo_poll, disable_nonfifo_poll, disable_poll
  <2> QED BY <2>1 DEF RingStep
<1>5. ASSUME NEW t \in Threads, Run(t) PROVE RingStep
  <2>0. Fits(t, pc[t], call[t])
    BY DEF Inv, CallOK
  <2>1. CASE Readiness(t)
    BY <2>1 DEF Readiness, RingStep, fifoVars
  <2>2. CASE enqueue_woken(t)
    <3>1. call[t].f \in Fifos /\ call[t].msg \in Msgs
      BY <2>0, <2>2 DEF enqueue_woken, Fits, WaitLabels
    <3> QED BY <2>2, <3>1
            DEF enqueue_woken, EnqueueWork, RingStep, Pushes, fifoVars
  <2>3. CASE dequeue_woken(t)
    <3>1. call[t].f \in Fifos
      BY <2>0, <2>3 DEF dequeue_woken, Fits, WaitLabels
    <3> QED BY <2>3, <3>1
            DEF dequeue_woken, DequeueWork, RingStep, Pops, fifoVars
  <2>4. CASE \/ enqueue_check(t) \/ dequeue_signal(t) \/ poll_woken(t)
             \/ poll_group_wakeup(t) \/ enable_check(t)
    BY <2>4 DEF enqueue_check, dequeue_signal, poll_woken, poll_group_wakeup,
                enable_check, RingStep
  <2>5. CASE UsePolled(t)
    <3>1. CASE poll_group_unsignal(t)
      BY <3>1 DEF poll_group_unsignal, RingStep
    <3> QED BY ZenonT(30), <1>1, <1>2, <2>5, <3>1 DEF UsePolled
  <2> QED BY <1>5, <2>1, <2>2, <2>3, <2>4, <2>5 DEF Run
<1>6. ASSUME NEW t \in Threads, SpuriousWakeup(t) PROVE RingStep
  BY <1>6 DEF SpuriousWakeup, RingStep, fifoVars
<1>7. CASE UNCHANGED vars
  BY <1>7 DEF vars, RingStep, fifoVars
<1> QED BY <1>3, <1>4, <1>5, <1>6, <1>7 DEF Next

(* The queues that the rings stand for. *)
AllContents == [f \in Fifos |-> Contents(fifo[f])]

(* A step of a ring is a step of its queue, or none. *)
LEMMA StepsOfQueues ==
  ASSUME Inv, RingStep
  PROVE  [Queues!Next]_<<AllContents, out>>
<1>0. fifo \in [Fifos -> Rings]
  BY DEF Inv, TypeOK
<1>1. CASE UNCHANGED fifoVars
  BY <1>1 DEF fifoVars, AllContents
<1>2. ASSUME NEW f \in Fifos, NEW m \in Msgs, Pushes(f, m)
      PROVE  Queues!Enqueue(f, m)
  <2>1. /\ Len(Contents(fifo[f])) < NumEnts
        /\ Contents(Push(fifo[f], m)) = Append(Contents(fifo[f]), m)
    BY <1>0, <1>2, PushAppends DEF Pushes
  <2>2. AllContents' = [AllContents EXCEPT ![f] = Append(AllContents[f], m)]
    BY Zenon, <1>0, <1>2, <2>1 DEF Pushes, AllContents
  <2> QED BY <1>2, <2>1, <2>2 DEF Pushes, AllContents, Queues!Enqueue
<1>3. ASSUME NEW f \in Fifos, Pops(f)
      PROVE  Queues!Dequeue(f)
  <2>1. /\ Contents(fifo[f]) # << >>
        /\ fifo[f].queue[fifo[f].consumer] = Head(Contents(fifo[f]))
        /\ Contents(Pop(fifo[f])) = Tail(Contents(fifo[f]))
    BY <1>0, <1>3, PopTakesHead DEF Pops
  <2>2. AllContents' = [AllContents EXCEPT ![f] = Tail(AllContents[f])]
    BY Zenon, <1>0, <1>3, <2>1 DEF Pops, AllContents
  <2> QED BY <1>3, <2>1, <2>2 DEF Pops, AllContents, Queues!Dequeue
<1> QED BY <1>1, <1>2, <1>3 DEF RingStep, Queues!Next

(* An empty ring is an empty queue. *)
LEMMA InitOfQueues ==
  ASSUME Init
  PROVE  Queues!Init
<1>1. InitRing \in Rings
  BY RingAssumption DEF InitRing, Rings, Slots
<1>2. num_in_queue(InitRing) = 0
  BY <1>1, NumIs, RingAssumption DEF InitRing
<1>3. Contents(InitRing) = << >>
  BY <1>2 DEF Contents
<1> QED BY <1>3 DEF Init, Queues!Init

(* Whatever the threads interleave, messages leave a FIFO in the order in  *)
(* which enqueue accepted them, once each, none is lost, and at most       *)
(* num_ents are held, for rings of any size and any low water mark.        *)
THEOREM RingsAreQueues == Spec => ImplementsQueues
<1>1. Inv /\ [Next]_vars => [Queues!Next]_<<AllContents, out>>
  BY StepsOfRings, StepsOfQueues
<1> QED BY <1>1, InitInv, NextInv, InitOfQueues, PTL
        DEF Spec, ImplementsQueues, Queues!Spec, AllContents
=============================================================================
