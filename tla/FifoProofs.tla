----------------------------- MODULE FifoProofs -----------------------------
(***************************************************************************)
(* Proofs about Fifo, for any number of FIFOs, threads, messages, ring     *)
(* entries and poll numbers.                                               *)
(***************************************************************************)
EXTENDS Fifo, TLAPS, WellFoundedInduction, NaturalsInduction

(* The locals c that thread t can have at label l: the strengthening that  *)
(* makes the invariants below inductive.                                   *)
Fits(t, l, c) ==
  /\ l \in ReadLabels \cup WriteLabels \cup WaitLabels => c.f \in Fifos
  /\ l \in {"enq_wait", "enq_woken"} => c.msg \in Msgs
  /\ l \in {"mr_poll", "mnr_poll"} => c.poll = ReadPos[c.f] /\ c.poll # Null
  /\ l \in {"mw_poll", "mnw_poll"} => c.poll = WritePos[c.f] /\ c.poll # Null
  /\ l \in {"mr_wakeup", "mw_wakeup", "pg_wakeup", "polled"} =>
       c.poll \in Positions
  /\ l = "polled" => c.poll.group = t
  /\ l \in {"poll_wait", "poll_woken"} => t \in Pollers \ NoPollGroups
  /\ l = "ew_check" => c.op = "enable"
  /\ c.was_empty => c.op = "enqueue"
  /\ c.non_readable => c.op = "dequeue"

CallOK == \A t \in Threads : Fits(t, pc[t], call[t])

BindOK ==
  \A f \in Fifos : /\ read_poll[f] \in {Null, ReadPos[f]}
                   /\ write_poll[f] \in {Null, WritePos[f]}

Inv == TypeOK /\ CallOK /\ BindOK

ControlOK == pc \in [Threads -> Labels] /\ call \in [Threads -> Calls] /\ CallOK

(* The critical sections of enqueue and dequeue keep a ring a ring. *)
LEMMA RingTypes ==
  ASSUME NEW r \in Rings
  PROVE  /\ Pop(r) \in Rings
         /\ \A m \in Msgs : Push(r, m) \in Rings
<1> USE RingAssumption
<1>1. (r.consumer + 1) % NumEnts \in Slots /\ (r.producer + 1) % NumEnts \in Slots
  BY DEF Slots, Rings
<1>2. Pop(r) \in Rings
  BY Zenon, <1>1 DEF Pop, Rings, Distance
<1>3. ASSUME NEW m \in Msgs PROVE Push(r, m) \in Rings
  BY Zenon, <1>1 DEF Push, Rings
<1> QED BY <1>2, <1>3

(* NoCall is a record of locals, and fits the label "idle". *)
LEMMA NoCallOK ==
  /\ NoCall \in Calls
  /\ \A t \in Threads : Fits(t, "idle", NoCall)
BY DEF NoCall, Calls, Fits, ReadLabels, WriteLabels, WaitLabels

(* A step of thread t to a label and locals that fit keeps the control     *)
(* state of all threads right.                                             *)
LEMMA StepOK ==
  ASSUME ControlOK, NEW t \in Threads, NEW l \in Labels, NEW c \in Calls,
         l # "idle" => Fits(t, l, c), Step(t, l, c)
  PROVE  ControlOK'
<1>1. Locals(l, c) \in Calls /\ Fits(t, l, Locals(l, c))
  BY NoCallOK DEF Locals
<1>2. /\ pc' = [pc EXCEPT ![t] = l]
      /\ call' = [call EXCEPT ![t] = Locals(l, c)]
  BY DEF Step
<1>3. pc' \in [Threads -> Labels] /\ call' \in [Threads -> Calls]
  BY <1>1, <1>2 DEF ControlOK
<1>4. ASSUME NEW u \in Threads PROVE Fits(u, pc'[u], call'[u])
  <2>1. CASE u = t
    BY <2>1, <1>1, <1>2 DEF ControlOK
  <2>2. CASE u # t
    <3>1. pc'[u] = pc[u] /\ call'[u] = call[u]
      BY <2>2, <1>2 DEF ControlOK
    <3> QED BY <3>1 DEF ControlOK, CallOK
  <2> QED BY <2>1, <2>2
<1> QED BY <1>3, <1>4 DEF ControlOK, CallOK

(* A signal also moves one of the threads that wait on the condition       *)
(* variable; its locals fit the place it wakes up at.                      *)
LEMMA StepSignalOK ==
  ASSUME ControlOK, NEW t \in Threads, NEW l \in Labels, NEW c \in Calls,
         NEW W \in SUBSET Threads, NEW l2 \in Labels,
         t \notin W, l # "idle" => Fits(t, l, c),
         \A w \in W : Fits(w, l2, call[w]),
         StepSignal(t, l, c, W, l2)
  PROVE  ControlOK'
<1>1. Locals(l, c) \in Calls /\ Fits(t, l, Locals(l, c))
  BY NoCallOK DEF Locals
<1>2. call' = [call EXCEPT ![t] = Locals(l, c)]
  BY DEF StepSignal
<1>3. call' \in [Threads -> Calls]
  BY <1>1, <1>2 DEF ControlOK
<1>4. CASE pc' = [pc EXCEPT ![t] = l]
  BY Zenon, <1>4, <1>2, StepOK DEF Step
<1>5. ASSUME NEW w \in W, pc' = [pc EXCEPT ![t] = l, ![w] = l2]
      PROVE  ControlOK'
  <2>1. pc' \in [Threads -> Labels]
    BY <1>5 DEF ControlOK
  <2>2. ASSUME NEW u \in Threads PROVE Fits(u, pc'[u], call'[u])
    <3>1. CASE u = t
      BY <3>1, <1>1, <1>2, <1>5 DEF ControlOK
    <3>2. CASE u = w
      <4>1. pc'[u] = l2 /\ call'[u] = call[u]
        BY <3>2, <1>2, <1>5 DEF ControlOK
      <4> QED BY <4>1, <3>2
    <3>3. CASE u # t /\ u # w
      <4>1. pc'[u] = pc[u] /\ call'[u] = call[u]
        BY <3>3, <1>2, <1>5 DEF ControlOK
      <4> QED BY <4>1 DEF ControlOK, CallOK
    <3> QED BY <3>1, <3>2, <3>3
  <2> QED BY <2>1, <2>2, <1>3 DEF ControlOK, CallOK
<1> QED BY <1>4, <1>5 DEF StepSignal

(* The waiters of the three kinds of condition variable fit the places at  *)
(* which they wake up.                                                     *)
LEMMA WaitersFit ==
  ASSUME ControlOK
  PROVE  /\ \A f \in Fifos : \A w \in ProducerWaiters(f) :
              w \in Threads /\ Fits(w, "enq_woken", call[w])
         /\ \A f \in Fifos : \A w \in ConsumerWaiters(f) :
              w \in Threads /\ Fits(w, "deq_woken", call[w])
         /\ \A g \in Pollers : \A w \in PollWaiters(g) :
              w \in Threads /\ Fits(w, "poll_woken", call[w])
<1>1. ASSUME NEW f \in Fifos, NEW w \in ProducerWaiters(f)
      PROVE  w \in Threads /\ Fits(w, "enq_woken", call[w])
  <2>1. w \in Threads /\ pc[w] = "enq_wait" /\ Fits(w, "enq_wait", call[w])
    BY DEF ProducerWaiters, ControlOK, CallOK
  <2> QED BY <2>1 DEF Fits, ReadLabels, WriteLabels, WaitLabels
<1>2. ASSUME NEW f \in Fifos, NEW w \in ConsumerWaiters(f)
      PROVE  w \in Threads /\ Fits(w, "deq_woken", call[w])
  <2>1. w \in Threads /\ pc[w] = "deq_wait" /\ Fits(w, "deq_wait", call[w])
    BY DEF ConsumerWaiters, ControlOK, CallOK
  <2> QED BY <2>1 DEF Fits, ReadLabels, WriteLabels, WaitLabels
<1>3. ASSUME NEW g \in Pollers, NEW w \in PollWaiters(g)
      PROVE  w \in Threads /\ Fits(w, "poll_woken", call[w])
  <2>1. w \in Threads /\ pc[w] = "poll_wait" /\ Fits(w, "poll_wait", call[w])
    BY DEF PollWaiters, ControlOK, CallOK, Threads
  <2> QED BY <2>1 DEF Fits, ReadLabels, WriteLabels, WaitLabels
<1> QED BY <1>1, <1>2, <1>3

(* Setting or clearing one bit keeps the groups groups. *)
LEMMA GroupTypes ==
  ASSUME group \in [Pollers -> Groups], NEW p \in Positions
  PROVE  /\ [group EXCEPT ![p.group].ready = @ \cup {p.num}] \in [Pollers -> Groups]
         /\ [group EXCEPT ![p.group].ready = @ \ {p.num}] \in [Pollers -> Groups]
         /\ [group EXCEPT ![p.group].mask = @ \cup {p.num}] \in [Pollers -> Groups]
         /\ [group EXCEPT ![p.group].mask = @ \ {p.num}] \in [Pollers -> Groups]
         /\ [group EXCEPT ![p.group].mask = @ \ {p.num},
                          ![p.group].ready = @ \ {p.num}] \in [Pollers -> Groups]
<1>0. p.group \in Pollers /\ p.num \in PollNums
  BY DEF Positions
<1>1. \A S \in SUBSET PollNums :
        /\ [group EXCEPT ![p.group].ready = S] \in [Pollers -> Groups]
        /\ [group EXCEPT ![p.group].mask = S] \in [Pollers -> Groups]
  BY <1>0 DEF Groups
<1>2. \A S, T \in SUBSET PollNums :
        [group EXCEPT ![p.group].mask = S, ![p.group].ready = T] \in [Pollers -> Groups]
  BY <1>0 DEF Groups
<1>3. /\ group[p.group].ready \cup {p.num} \in SUBSET PollNums
      /\ group[p.group].ready \ {p.num} \in SUBSET PollNums
      /\ group[p.group].mask \cup {p.num} \in SUBSET PollNums
      /\ group[p.group].mask \ {p.num} \in SUBSET PollNums
  BY <1>0 DEF Groups
<1>4. /\ [group EXCEPT ![p.group].ready = @ \cup {p.num}] \in [Pollers -> Groups]
      /\ [group EXCEPT ![p.group].ready = @ \ {p.num}] \in [Pollers -> Groups]
  BY Zenon, <1>1, <1>3
<1>5. /\ [group EXCEPT ![p.group].mask = @ \cup {p.num}] \in [Pollers -> Groups]
      /\ [group EXCEPT ![p.group].mask = @ \ {p.num}] \in [Pollers -> Groups]
  BY Zenon, <1>1, <1>3
<1>6. [group EXCEPT ![p.group].mask = @ \ {p.num},
                    ![p.group].ready = @ \ {p.num}] \in [Pollers -> Groups]
  BY <1>0 DEF Groups
<1> QED BY <1>4, <1>5, <1>6

(* Where a call goes on after make_writable and make_readable. *)
LEMMA AfterFits ==
  ASSUME NEW t \in Threads, NEW l \in ReadLabels \cup WriteLabels,
         NEW c \in Calls, Fits(t, l, c)
  PROVE  /\ AfterWritable(c) \in Labels /\ Fits(t, AfterWritable(c), c)
         /\ AfterReadable(c) \in Labels /\ Fits(t, AfterReadable(c), c)
BY DEF AfterWritable, AfterReadable, Fits, Labels, ReadLabels, WriteLabels,
       WaitLabels

LEMMA ReadableInv ==
  ASSUME Inv, NEW t \in Threads, make_readable(t),
         UNCHANGED <<fifo, out, read_poll, write_poll>>
  PROVE  Inv'
<1> DEFINE c == call[t]
<1>0. /\ ControlOK /\ c \in Calls /\ Fits(t, pc[t], c)
      /\ group \in [Pollers -> Groups]
  BY DEF Inv, TypeOK, ControlOK, CallOK
<1>1. CASE /\ pc[t] = "mr_signal"
           /\ StepSignal(t, "mr_fifo", c, ConsumerWaiters(c.f), "deq_woken")
           /\ UNCHANGED group
  <2>1. c.f \in Fifos /\ Fits(t, "mr_fifo", c)
    BY <1>0, <1>1 DEF Fits, ReadLabels, WriteLabels, WaitLabels
  <2>2. t \notin ConsumerWaiters(c.f)
    BY <1>1 DEF ConsumerWaiters
  <2>3. ConsumerWaiters(c.f) \in SUBSET Threads
    BY DEF ConsumerWaiters
  <2>4. ControlOK'
    BY <2>1, <2>2, <2>3, <1>0, <1>1, WaitersFit, StepSignalOK
       DEF Labels, ReadLabels, WaitLabels
  <2> QED BY <2>4, <1>1 DEF Inv, TypeOK, BindOK, ControlOK
<1>2. CASE /\ pc[t] = "mr_fifo"
           /\ Step(t, IF read_poll[c.f] = Null THEN AfterReadable(c) ELSE "mr_poll",
                   [c EXCEPT !.poll = read_poll[c.f]])
           /\ UNCHANGED group
  <2> DEFINE d == [c EXCEPT !.poll = read_poll[c.f]]
  <2>1. c.f \in Fifos
    BY <1>0, <1>2 DEF Fits, ReadLabels
  <2>2. read_poll[c.f] \in Positions \cup {Null} /\ read_poll[c.f] \in {Null, ReadPos[c.f]}
    BY <2>1 DEF Inv, TypeOK, BindOK
  <2>3. d \in Calls /\ Fits(t, "mr_fifo", d)
    BY <1>0, <1>2, <2>1, <2>2 DEF Calls, Fits, ReadLabels, WriteLabels, WaitLabels
  <2>4. AfterReadable(d) = AfterReadable(c)
    BY <1>0 DEF AfterReadable, Calls
  <2>5. CASE read_poll[c.f] = Null
    BY Zenon, <2>5, <2>3, <2>4, <1>0, <1>2, AfterFits, StepOK
       DEF Inv, TypeOK, BindOK, ControlOK, ReadLabels
  <2>6. CASE read_poll[c.f] # Null
    <3>1. Fits(t, "mr_poll", d)
      BY <2>6, <2>2, <2>3, <1>0 DEF Calls, Fits, ReadLabels, WriteLabels, WaitLabels
    <3>2. ControlOK'
      BY <3>1, <2>6, <2>3, <1>0, <1>2, StepOK DEF Labels, ReadLabels
    <3> QED BY <3>2, <1>2 DEF Inv, TypeOK, BindOK, ControlOK
  <2> QED BY <2>5, <2>6
<1>3. CASE /\ pc[t] = "mr_poll"
           /\ c.poll.num \in group[c.poll.group].mask
           /\ group' = [group EXCEPT ![c.poll.group].ready = @ \cup {c.poll.num}]
           /\ Step(t, "mr_wakeup", c)
  <2>1. c.poll \in Positions /\ Fits(t, "mr_wakeup", c)
    BY <1>0, <1>3 DEF Calls, Fits, ReadLabels, WriteLabels, WaitLabels
  <2>2. ControlOK'
    BY <2>1, <1>0, <1>3, StepOK DEF Labels, ReadLabels
  <2>3. group' \in [Pollers -> Groups]
    BY Zenon, <2>1, <1>0, <1>3, GroupTypes
  <2> QED BY <2>2, <2>3 DEF Inv, TypeOK, BindOK, ControlOK
<1>4. CASE pc[t] = "mr_poll" /\ Step(t, AfterReadable(c), c) /\ UNCHANGED group
  BY <1>0, <1>4, AfterFits, StepOK
     DEF Inv, TypeOK, BindOK, ControlOK, ReadLabels
<1>5. CASE /\ pc[t] = "mr_wakeup"
           /\ StepSignal(t, AfterReadable(c), c, PollWaiters(c.poll.group), "poll_woken")
           /\ UNCHANGED group
  <2>1. c.poll.group \in Pollers
    BY <1>0, <1>5 DEF Fits, Positions
  <2>2. t \notin PollWaiters(c.poll.group)
    BY <1>5 DEF PollWaiters
  <2>3. PollWaiters(c.poll.group) \in SUBSET Threads
    BY DEF PollWaiters, Threads
  <2>4. ControlOK'
    BY ZenonT(30), <2>1, <2>2, <2>3, <1>0, <1>5, AfterFits, WaitersFit, StepSignalOK
       DEF Labels, ReadLabels, PollLabels
  <2> QED BY <2>4, <1>5 DEF Inv, TypeOK, BindOK, ControlOK
<1> QED BY <1>1, <1>2, <1>3, <1>4, <1>5 DEF make_readable

LEMMA WritableInv ==
  ASSUME Inv, NEW t \in Threads, make_writable(t),
         UNCHANGED <<fifo, out, read_poll, write_poll>>
  PROVE  Inv'
<1> DEFINE c == call[t]
<1>0. /\ ControlOK /\ c \in Calls /\ Fits(t, pc[t], c)
      /\ group \in [Pollers -> Groups]
  BY DEF Inv, TypeOK, ControlOK, CallOK
<1>1. CASE /\ pc[t] = "mw_signal"
           /\ StepSignal(t, "mw_fifo", c, ProducerWaiters(c.f), "enq_woken")
           /\ UNCHANGED group
  <2>1. c.f \in Fifos /\ Fits(t, "mw_fifo", c)
    BY <1>0, <1>1 DEF Fits, ReadLabels, WriteLabels, WaitLabels
  <2>2. t \notin ProducerWaiters(c.f)
    BY <1>1 DEF ProducerWaiters
  <2>3. ProducerWaiters(c.f) \in SUBSET Threads
    BY DEF ProducerWaiters
  <2>4. ControlOK'
    BY <2>1, <2>2, <2>3, <1>0, <1>1, WaitersFit, StepSignalOK
       DEF Labels, WriteLabels, WaitLabels
  <2> QED BY <2>4, <1>1 DEF Inv, TypeOK, BindOK, ControlOK
<1>2. CASE /\ pc[t] = "mw_fifo"
           /\ Step(t, IF write_poll[c.f] = Null THEN AfterWritable(c) ELSE "mw_poll",
                   [c EXCEPT !.poll = write_poll[c.f]])
           /\ UNCHANGED group
  <2> DEFINE d == [c EXCEPT !.poll = write_poll[c.f]]
  <2>1. c.f \in Fifos
    BY <1>0, <1>2 DEF Fits, WriteLabels
  <2>2. write_poll[c.f] \in Positions \cup {Null} /\ write_poll[c.f] \in {Null, WritePos[c.f]}
    BY <2>1 DEF Inv, TypeOK, BindOK
  <2>3. d \in Calls /\ Fits(t, "mw_fifo", d)
    BY <1>0, <1>2, <2>1, <2>2 DEF Calls, Fits, ReadLabels, WriteLabels, WaitLabels
  <2>4. AfterWritable(d) = AfterWritable(c)
    BY <1>0 DEF AfterWritable, Calls
  <2>5. CASE write_poll[c.f] = Null
    BY Zenon, <2>5, <2>3, <2>4, <1>0, <1>2, AfterFits, StepOK
       DEF Inv, TypeOK, BindOK, ControlOK, WriteLabels
  <2>6. CASE write_poll[c.f] # Null
    <3>1. Fits(t, "mw_poll", d)
      BY <2>6, <2>2, <2>3, <1>0 DEF Calls, Fits, ReadLabels, WriteLabels, WaitLabels
    <3>2. ControlOK'
      BY <3>1, <2>6, <2>3, <1>0, <1>2, StepOK DEF Labels, WriteLabels
    <3> QED BY <3>2, <1>2 DEF Inv, TypeOK, BindOK, ControlOK
  <2> QED BY <2>5, <2>6
<1>3. CASE /\ pc[t] = "mw_poll"
           /\ c.poll.num \in group[c.poll.group].mask
           /\ group' = [group EXCEPT ![c.poll.group].ready = @ \cup {c.poll.num}]
           /\ Step(t, "mw_wakeup", c)
  <2>1. c.poll \in Positions /\ Fits(t, "mw_wakeup", c)
    BY <1>0, <1>3 DEF Calls, Fits, ReadLabels, WriteLabels, WaitLabels
  <2>2. ControlOK'
    BY <2>1, <1>0, <1>3, StepOK DEF Labels, WriteLabels
  <2>3. group' \in [Pollers -> Groups]
    BY Zenon, <2>1, <1>0, <1>3, GroupTypes
  <2> QED BY <2>2, <2>3 DEF Inv, TypeOK, BindOK, ControlOK
<1>4. CASE pc[t] = "mw_poll" /\ Step(t, AfterWritable(c), c) /\ UNCHANGED group
  BY Zenon, <1>0, <1>4, AfterFits, StepOK
     DEF Inv, TypeOK, BindOK, ControlOK, WriteLabels
<1>5. CASE /\ pc[t] = "mw_wakeup"
           /\ StepSignal(t, AfterWritable(c), c, PollWaiters(c.poll.group), "poll_woken")
           /\ UNCHANGED group
  <2>1. c.poll.group \in Pollers
    BY <1>0, <1>5 DEF Fits, Positions
  <2>2. t \notin PollWaiters(c.poll.group)
    BY <1>5 DEF PollWaiters
  <2>3. PollWaiters(c.poll.group) \in SUBSET Threads
    BY DEF PollWaiters, Threads
  <2>4. ControlOK'
    BY ZenonT(30), <2>1, <2>2, <2>3, <1>0, <1>5, AfterFits, WaitersFit, StepSignalOK
       DEF Labels, WriteLabels, PollLabels
  <2> QED BY <2>4, <1>5 DEF Inv, TypeOK, BindOK, ControlOK
<1> QED BY <1>1, <1>2, <1>3, <1>4, <1>5 DEF make_writable

(* Steps that change only the control state and one ready bit. *)
LEMMA NonReadyInv ==
  ASSUME Inv, NEW t \in Threads,
         make_non_readable_after_dequeue(t) \/ mark_non_writable(t),
         UNCHANGED <<fifo, out, read_poll, write_poll>>
  PROVE  Inv'
<1> DEFINE c == call[t]
<1>0. /\ ControlOK /\ c \in Calls /\ Fits(t, pc[t], c)
      /\ group \in [Pollers -> Groups]
  BY DEF Inv, TypeOK, ControlOK, CallOK
<1>1. CASE /\ pc[t] = "mnr_fifo"
           /\ Step(t, IF read_poll[c.f] = Null THEN "mnr_check" ELSE "mnr_poll",
                   [c EXCEPT !.poll = read_poll[c.f]])
           /\ UNCHANGED group
  <2> DEFINE d == [c EXCEPT !.poll = read_poll[c.f]]
  <2>1. c.f \in Fifos
    BY <1>0, <1>1 DEF Fits, ReadLabels
  <2>2. read_poll[c.f] \in Positions \cup {Null} /\ read_poll[c.f] \in {Null, ReadPos[c.f]}
    BY <2>1 DEF Inv, TypeOK, BindOK
  <2>3. d \in Calls /\ Fits(t, "mnr_check", d)
    BY <1>0, <1>1, <2>1, <2>2 DEF Calls, Fits, ReadLabels, WriteLabels, WaitLabels
  <2>4. read_poll[c.f] # Null => Fits(t, "mnr_poll", d)
    BY <1>0, <2>2, <2>3 DEF Calls, Fits, ReadLabels, WriteLabels, WaitLabels
  <2>5. ControlOK'
    BY <2>3, <2>4, <1>0, <1>1, StepOK DEF Labels, ReadLabels
  <2> QED BY <2>5, <1>1 DEF Inv, TypeOK, BindOK, ControlOK
<1>2. CASE /\ pc[t] = "mnr_poll"
           /\ group' = [group EXCEPT ![c.poll.group].ready = @ \ {c.poll.num}]
           /\ Step(t, "mnr_check", c)
  <2>1. c.poll \in Positions /\ Fits(t, "mnr_check", c)
    BY <1>0, <1>2 DEF Calls, Fits, ReadLabels, WriteLabels, WaitLabels
  <2>2. ControlOK'
    BY <2>1, <1>0, <1>2, StepOK DEF Labels, ReadLabels
  <2>3. group' \in [Pollers -> Groups]
    BY Zenon, <2>1, <1>0, <1>2, GroupTypes
  <2> QED BY <2>2, <2>3 DEF Inv, TypeOK, BindOK, ControlOK
<1>3. CASE /\ pc[t] = "mnr_check"
           /\ Step(t, IF is_empty(fifo[c.f]) THEN AfterReadable(c) ELSE "mr_signal", c)
           /\ UNCHANGED group
  <2>1. Fits(t, "mr_signal", c)
    BY <1>0, <1>3 DEF Fits, ReadLabels, WriteLabels, WaitLabels
  <2>2. ControlOK'
    BY Zenon, <2>1, <1>0, <1>3, AfterFits, StepOK DEF Labels, ReadLabels
  <2> QED BY <2>2, <1>3 DEF Inv, TypeOK, BindOK, ControlOK
<1>4. CASE /\ pc[t] = "mnw_fifo"
           /\ Step(t, IF write_poll[c.f] = Null THEN "enq_check" ELSE "mnw_poll",
                   [c EXCEPT !.poll = write_poll[c.f]])
           /\ UNCHANGED group
  <2> DEFINE d == [c EXCEPT !.poll = write_poll[c.f]]
  <2>1. c.f \in Fifos
    BY <1>0, <1>4 DEF Fits, WriteLabels
  <2>2. write_poll[c.f] \in Positions \cup {Null} /\ write_poll[c.f] \in {Null, WritePos[c.f]}
    BY <2>1 DEF Inv, TypeOK, BindOK
  <2>3. d \in Calls /\ Fits(t, "enq_check", d)
    BY <1>0, <1>4, <2>1, <2>2 DEF Calls, Fits, ReadLabels, WriteLabels, WaitLabels
  <2>4. write_poll[c.f] # Null => Fits(t, "mnw_poll", d)
    BY <1>0, <2>2, <2>3 DEF Calls, Fits, ReadLabels, WriteLabels, WaitLabels
  <2>5. ControlOK'
    BY <2>3, <2>4, <1>0, <1>4, StepOK DEF Labels, WriteLabels
  <2> QED BY <2>5, <1>4 DEF Inv, TypeOK, BindOK, ControlOK
<1>5. CASE /\ pc[t] = "mnw_poll"
           /\ group' = [group EXCEPT ![c.poll.group].ready = @ \ {c.poll.num}]
           /\ Step(t, "enq_check", c)
  <2>1. c.poll \in Positions /\ Fits(t, "enq_check", c)
    BY <1>0, <1>5 DEF Calls, Fits, ReadLabels, WriteLabels, WaitLabels
  <2>2. ControlOK'
    BY <2>1, <1>0, <1>5, StepOK DEF Labels, WriteLabels
  <2>3. group' \in [Pollers -> Groups]
    BY Zenon, <2>1, <1>0, <1>5, GroupTypes
  <2> QED BY <2>2, <2>3 DEF Inv, TypeOK, BindOK, ControlOK
<1> QED
  BY <1>1, <1>2, <1>3, <1>4, <1>5
     DEF make_non_readable_after_dequeue, mark_non_readable, mark_non_writable

(* The critical section of enqueue that stores a message. *)
LEMMA EnqueueWorkInv ==
  ASSUME Inv, NEW t \in Threads, NEW f \in Fifos, NEW m \in Msgs,
         EnqueueWork(t, f, m), UNCHANGED <<read_poll, write_poll, group>>
  PROVE  Inv'
<1> DEFINE r == Push(fifo[f], m)
           was_empty == fifo[f].producer = fifo[f].consumer
           c == [NoCall EXCEPT !.op = "enqueue", !.f = f, !.was_empty = was_empty]
           l == IF r.producer = r.consumer THEN "mnw_fifo"
                ELSE IF was_empty THEN "mr_signal" ELSE "idle"
<1>1. c \in Calls /\ l \in Labels
  BY Zenon DEF NoCall, Calls, Labels, ReadLabels, WriteLabels
<1>2. l # "idle" => Fits(t, l, c)
  BY DEF NoCall, Fits, ReadLabels, WriteLabels, WaitLabels
<1>3. Step(t, l, c) /\ fifo' = [fifo EXCEPT ![f] = r] /\ out' = out
  BY DEF EnqueueWork
<1>4. ControlOK'
  BY <1>1, <1>2, <1>3, StepOK DEF Inv, TypeOK, ControlOK
<1>5. fifo' \in [Fifos -> Rings]
  BY Zenon, <1>3, RingTypes DEF Inv, TypeOK
<1> QED BY <1>3, <1>4, <1>5 DEF Inv, TypeOK, BindOK, ControlOK

LEMMA EnqueueInv ==
  ASSUME Inv, NEW t \in Threads, NEW f \in Fifos, NEW m \in Msgs,
         NEW w \in BOOLEAN, enqueue(t, f, m, w)
  PROVE  Inv'
<1>1. CASE EnqueueWork(t, f, m)
  BY <1>1, EnqueueWorkInv DEF enqueue
<1>2. CASE /\ Step(t, "enq_wait",
                   [NoCall EXCEPT !.op = "enqueue", !.f = f, !.msg = m])
           /\ UNCHANGED fifoVars
  <2> DEFINE c == [NoCall EXCEPT !.op = "enqueue", !.f = f, !.msg = m]
  <2>1. c \in Calls /\ Fits(t, "enq_wait", c)
    BY Zenon DEF NoCall, Calls, Fits, ReadLabels, WriteLabels, WaitLabels
  <2>2. ControlOK'
    BY Zenon, <2>1, <1>2, StepOK DEF Inv, TypeOK, ControlOK, Labels, WaitLabels
  <2> QED BY <2>2, <1>2 DEF Inv, TypeOK, BindOK, ControlOK, enqueue, fifoVars
<1>3. CASE Step(t, "idle", NoCall) /\ UNCHANGED fifoVars
  <2>1. ControlOK'
    BY <1>3, NoCallOK, StepOK DEF Inv, TypeOK, ControlOK, Labels
  <2> QED BY <2>1, <1>3 DEF Inv, TypeOK, BindOK, ControlOK, enqueue, fifoVars
<1> QED BY <1>1, <1>2, <1>3 DEF enqueue

LEMMA EnqueueRestInv ==
  ASSUME Inv, NEW t \in Threads, enqueue_woken(t) \/ enqueue_check(t)
  PROVE  Inv'
<1> DEFINE c == call[t]
<1>0. ControlOK /\ c \in Calls /\ Fits(t, pc[t], c)
  BY DEF Inv, TypeOK, ControlOK, CallOK
<1>1. CASE enqueue_woken(t)
  <2>1. c.f \in Fifos /\ c.msg \in Msgs /\ Fits(t, "enq_wait", c)
    BY <1>0, <1>1 DEF enqueue_woken, Fits, ReadLabels, WriteLabels, WaitLabels
  <2>2. CASE Step(t, "enq_wait", c) /\ UNCHANGED fifoVars
    <3>1. ControlOK'
      BY <2>1, <2>2, <1>0, StepOK DEF Labels, WaitLabels
    <3> QED
      BY <3>1, <2>2, <1>1 DEF Inv, TypeOK, BindOK, ControlOK, enqueue_woken, fifoVars
  <2>3. CASE EnqueueWork(t, c.f, c.msg)
    BY <2>1, <2>3, <1>1, EnqueueWorkInv DEF enqueue_woken
  <2> QED BY <2>2, <2>3, <1>1 DEF enqueue_woken
<1>2. CASE enqueue_check(t)
  <2>1. pc[t] = "enq_check" /\ Fits(t, "mw_signal", c)
    BY <1>0, <1>2 DEF enqueue_check, Fits, ReadLabels, WriteLabels, WaitLabels
  <2>2. AfterWritable(c) \in Labels /\ Fits(t, AfterWritable(c), c)
    BY <2>1, <1>0, AfterFits DEF WriteLabels
  <2>3. ControlOK'
    BY Zenon, <2>1, <2>2, <1>0, <1>2, StepOK DEF enqueue_check, Labels, WriteLabels
  <2> QED BY <2>3, <1>2 DEF Inv, TypeOK, BindOK, ControlOK, enqueue_check, fifoVars
<1> QED BY <1>1, <1>2

(* A slot that a dequeue reads holds a message or was never written.       *)
LEMMA DequeueWorkInv ==
  ASSUME Inv, NEW t \in Threads, NEW f \in Fifos,
         DequeueWork(t, f), UNCHANGED <<read_poll, write_poll, group>>
  PROVE  Inv'
<1> DEFINE r == Pop(fifo[f])
           non_readable == r.producer = r.consumer
           unblocked == fifo[f].queue_full /\ ~ r.queue_full
           c == [NoCall EXCEPT !.op = "dequeue", !.f = f,
                               !.non_readable = non_readable,
                               !.signal_producer = unblocked]
           l == IF unblocked THEN "mw_signal"
                ELSE IF non_readable THEN "mnr_fifo" ELSE "idle"
<1>1. c \in Calls /\ l \in Labels
  BY Zenon DEF NoCall, Calls, Labels, ReadLabels, WriteLabels
<1>2. l # "idle" => Fits(t, l, c)
  BY DEF NoCall, Fits, ReadLabels, WriteLabels, WaitLabels
<1>3. /\ Step(t, l, c)
      /\ fifo' = [fifo EXCEPT ![f] = r]
      /\ out' = [out EXCEPT ![f] = fifo[f].queue[fifo[f].consumer]]
  BY DEF DequeueWork
<1>4. ControlOK'
  BY <1>1, <1>2, <1>3, StepOK DEF Inv, TypeOK, ControlOK
<1>5. fifo' \in [Fifos -> Rings]
  BY <1>3, RingTypes DEF Inv, TypeOK
<1>6. out' \in [Fifos -> Msgs \cup {NoMsg}]
  BY <1>3 DEF Inv, TypeOK, Rings
<1> QED BY <1>4, <1>5, <1>6 DEF Inv, TypeOK, BindOK, ControlOK

LEMMA DequeueInv ==
  ASSUME Inv, NEW t \in Threads, NEW f \in Fifos, NEW w \in BOOLEAN,
         dequeue(t, f, w)
  PROVE  Inv'
<1>1. CASE DequeueWork(t, f)
  BY <1>1, DequeueWorkInv DEF dequeue
<1>2. CASE /\ Step(t, IF w THEN "deq_wait" ELSE "mnr_fifo",
                   [NoCall EXCEPT !.op = "dequeue", !.f = f])
           /\ UNCHANGED fifoVars
  <2> DEFINE c == [NoCall EXCEPT !.op = "dequeue", !.f = f]
  <2>1. c \in Calls /\ Fits(t, "deq_wait", c) /\ Fits(t, "mnr_fifo", c)
    BY Zenon DEF NoCall, Calls, Fits, ReadLabels, WriteLabels, WaitLabels
  <2>2. ControlOK'
    BY Zenon, <2>1, <1>2, StepOK
       DEF Inv, TypeOK, ControlOK, Labels, ReadLabels, WaitLabels
  <2> QED BY <2>2, <1>2 DEF Inv, TypeOK, BindOK, ControlOK, dequeue, fifoVars
<1> QED BY <1>1, <1>2 DEF dequeue

LEMMA DequeueRestInv ==
  ASSUME Inv, NEW t \in Threads, dequeue_woken(t) \/ dequeue_signal(t)
  PROVE  Inv'
<1> DEFINE c == call[t]
<1>0. ControlOK /\ c \in Calls /\ Fits(t, pc[t], c)
  BY DEF Inv, TypeOK, ControlOK, CallOK
<1>1. CASE dequeue_woken(t)
  <2>1. c.f \in Fifos /\ Fits(t, "deq_wait", c)
    BY <1>0, <1>1 DEF dequeue_woken, Fits, ReadLabels, WriteLabels, WaitLabels
  <2>2. CASE Step(t, "deq_wait", c) /\ UNCHANGED fifoVars
    <3>1. ControlOK'
      BY <2>1, <2>2, <1>0, StepOK DEF Labels, WaitLabels
    <3> QED
      BY <3>1, <2>2, <1>1 DEF Inv, TypeOK, BindOK, ControlOK, dequeue_woken, fifoVars
  <2>3. CASE DequeueWork(t, c.f)
    BY <2>1, <2>3, <1>1, DequeueWorkInv DEF dequeue_woken
  <2> QED BY <2>2, <2>3, <1>1 DEF dequeue_woken
<1>2. CASE dequeue_signal(t)
  <2>1. pc[t] = "deq_signal" /\ c.f \in Fifos
    BY <1>0, <1>2 DEF dequeue_signal, Fits, WaitLabels
  <2>2. /\ t \notin ProducerWaiters(c.f)
        /\ ProducerWaiters(c.f) \in SUBSET Threads
    BY <2>1 DEF ProducerWaiters
  <2>3. ControlOK'
    BY <2>1, <2>2, <1>0, <1>2, NoCallOK, WaitersFit, StepSignalOK
       DEF dequeue_signal, Labels, WaitLabels
  <2> QED BY <2>3, <1>2 DEF Inv, TypeOK, BindOK, ControlOK, dequeue_signal, fifoVars
<1> QED BY <1>1, <1>2

(* A set of natural numbers that is not empty has a smallest member. *)
LEMMA SmallestOK ==
  ASSUME NEW S \in SUBSET Nat, S # {}
  PROVE  Smallest(S) \in S
<1> DEFINE R == {ss \in Nat \X Nat : ss[1] < ss[2]}
<1>1. IsWellFoundedOn(R, Nat)
  BY NatLessThanWellFounded, Zenon DEF OpToRel
<1>2. \E v \in S : \A w \in S : ~ (<<w, v>> \in R)
  <2> HIDE DEF R
  <2> QED BY Zenon, <1>1, WFMin
<1>3. \A v, w \in Nat : ~ (<<w, v>> \in R) => v <= w
  OBVIOUS
<1>4. \E v \in S : \A w \in S : v <= w
  <2> HIDE DEF R
  <2> QED BY Zenon, <1>2, <1>3
<1> QED BY Zenon, <1>4 DEF Smallest

LEMMA MaxFifosType == MaxFifos \in Nat \ {0}
BY FifoAssumption

(* find_roll returns a member of the set, and MaxFifos when there is none. *)
LEMMA FindRoll ==
  ASSUME NEW S \in SUBSET PollNums, NEW pos \in PollNums
  PROVE  /\ S # {} => find_roll(S, pos) \in S
         /\ S = {} => find_roll(S, pos) = MaxFifos
<1> DEFINE ahead == {v \in S : v >= pos}
<1>1. PollNums \in SUBSET Nat
  BY MaxFifosType DEF PollNums
<1>2. S \in SUBSET Nat /\ ahead \in SUBSET Nat
  BY Zenon, <1>1
<1>3. CASE ahead # {}
  BY <1>2, <1>3, SmallestOK DEF find_roll
<1>4. CASE ahead = {}
  BY Zenon, <1>2, <1>4, SmallestOK DEF find_roll
<1> QED BY <1>3, <1>4

(* A poll that finds nothing has found no ready number of the mask. *)
LEMMA FoundOK ==
  ASSUME TypeOK, NEW g \in Pollers
  PROVE  /\ Found(g) < MaxFifos => Found(g) \in PollNums
         /\ g \notin NoPollGroups /\ ~ (Found(g) < MaxFifos) =>
              group[g].ready \cap group[g].mask = {}
<1> DEFINE S == IF g \in NoPollGroups THEN group[g].mask
                ELSE group[g].ready \cap group[g].mask
<1>1. S \in SUBSET PollNums /\ group[g].start_pos \in PollNums
  BY DEF TypeOK, Groups
<1>2. Found(g) = find_roll(S, group[g].start_pos)
  BY DEF Found
<1>3. CASE S = {}
  BY <1>1, <1>2, <1>3, FindRoll, MaxFifosType
<1>4. CASE S # {}
  <2>1. Found(g) \in PollNums
    BY <1>1, <1>2, <1>4, FindRoll
  <2>2. Found(g) < MaxFifos
    BY <2>1, MaxFifosType DEF PollNums
  <2> QED BY <2>1, <2>2
<1> QED BY <1>3, <1>4

LEMMA PolledFits ==
  ASSUME NEW t \in Pollers, NEW v \in PollNums
  PROVE  LET c == [NoCall EXCEPT !.poll = [group |-> t, num |-> v]]
         IN c \in Calls /\ Fits(t, "polled", c)
BY Zenon DEF NoCall, Calls, Fits, Positions, ReadLabels, WriteLabels, WaitLabels

LEMMA PollInv ==
  ASSUME Inv, NEW t \in Pollers, NEW w \in BOOLEAN,
         poll(t, w) \/ poll_woken(t)
  PROVE  Inv'
<1> DEFINE v == Found(t)
           c == [NoCall EXCEPT !.poll = [group |-> t, num |-> v]]
<1>0. /\ t \in Threads /\ ControlOK /\ Fits(t, pc[t], call[t])
      /\ group \in [Pollers -> Groups]
  BY DEF Inv, TypeOK, ControlOK, CallOK, Threads
<1>1. v < MaxFifos => c \in Calls /\ Fits(t, "polled", c)
  BY FoundOK, PolledFits DEF Inv
<1>2. Fits(t, "poll_wait", NoCall) <=> t \notin NoPollGroups
  BY DEF NoCall, Fits, ReadLabels, WriteLabels, WaitLabels
<1>3. CASE poll(t, w)
  <2>1. CASE /\ v < MaxFifos
             /\ group' = [group EXCEPT ![t].start_pos = (v + 1) % MaxFifos]
             /\ Step(t, "polled", c)
    <3>1. v \in PollNums
      BY <2>1, FoundOK DEF Inv
    <3>2. (v + 1) % MaxFifos \in PollNums
      BY <3>1, MaxFifosType DEF PollNums
    <3>3. group' \in [Pollers -> Groups]
      BY <1>0, <2>1, <3>2 DEF Groups
    <3>4. ControlOK'
      BY <1>0, <1>1, <2>1, StepOK DEF Labels, PollLabels
    <3> QED BY <3>3, <3>4, <1>3 DEF Inv, TypeOK, BindOK, ControlOK, poll, fifoVars
  <2>2. CASE /\ Step(t, IF w /\ t \notin NoPollGroups THEN "poll_wait"
                        ELSE "idle", NoCall)
             /\ UNCHANGED group
    <3>1. ControlOK'
      BY <1>0, <1>2, <2>2, NoCallOK, StepOK DEF Labels, PollLabels
    <3> QED BY <3>1, <2>2, <1>3 DEF Inv, TypeOK, BindOK, ControlOK, poll, fifoVars
  <2> QED BY <2>1, <2>2, <1>3 DEF poll, Polled
<1>4. CASE poll_woken(t)
  <2>1. t \notin NoPollGroups
    BY <1>0, <1>4 DEF poll_woken, Fits
  <2>2. ControlOK'
    BY <1>0, <1>1, <1>2, <1>4, <2>1, NoCallOK, StepOK
       DEF poll_woken, Polled, Labels, PollLabels
  <2> QED BY <2>2, <1>4 DEF Inv, TypeOK, BindOK, ControlOK, poll_woken, fifoVars
<1> QED BY <1>3, <1>4

LEMMA GroupSignalInv ==
  ASSUME Inv, NEW t \in Threads, NEW g \in Pollers, NEW v \in NonFifoNums,
         poll_group_signal(t, g, v)
  PROVE  Inv'
<1> DEFINE p == [group |-> g, num |-> v]
           c == [NoCall EXCEPT !.poll = p]
<1>0. ControlOK /\ group \in [Pollers -> Groups]
  BY DEF Inv, TypeOK, ControlOK
<1>1. p \in Positions
  BY FifoAssumption DEF Positions
<1>2. c \in Calls /\ Fits(t, "pg_wakeup", c)
  BY Zenon, <1>1 DEF NoCall, Calls, Fits, ReadLabels, WriteLabels, WaitLabels
<1>3. ControlOK'
  BY <1>0, <1>2, StepOK DEF poll_group_signal, Labels, PollLabels
<1>4. group' = [group EXCEPT ![p.group].ready = @ \cup {p.num}]
  BY DEF poll_group_signal
<1>5. group' \in [Pollers -> Groups]
  BY Zenon, <1>0, <1>1, <1>4, GroupTypes
<1> QED
  BY <1>3, <1>5 DEF Inv, TypeOK, BindOK, ControlOK, poll_group_signal, fifoVars

LEMMA UsePolledInv ==
  ASSUME Inv, NEW t \in Threads, UsePolled(t)
  PROVE  Inv'
<1>1. CASE \E f \in Fifos : dequeue(t, f, FALSE)
  BY Zenon, <1>1, DequeueInv
<1>2. CASE \E f \in Fifos, m \in Msgs : enqueue(t, f, m, FALSE)
  BY ZenonT(30), <1>2, EnqueueInv
<1>3. CASE poll_group_unsignal(t)
  <2> DEFINE p == call[t].poll
  <2>1. p \in Positions /\ p.group = t /\ ControlOK /\ group \in [Pollers -> Groups]
    BY DEF UsePolled, Inv, TypeOK, ControlOK, CallOK, Fits
  <2>2. group' = [group EXCEPT ![p.group].ready = @ \ {p.num}]
    BY <1>3, <2>1 DEF poll_group_unsignal
  <2>3. group' \in [Pollers -> Groups]
    BY Zenon, <2>1, <2>2, GroupTypes
  <2>4. ControlOK'
    BY <1>3, <2>1, NoCallOK, StepOK DEF poll_group_unsignal, Labels
  <2> QED
    BY <2>3, <2>4, <1>3 DEF Inv, TypeOK, BindOK, ControlOK, poll_group_unsignal, fifoVars
<1> QED BY Zenon, <1>1, <1>2, <1>3 DEF UsePolled

(* Binding, unbinding, enabling and disabling. *)
LEMMA ConfigureInv ==
  ASSUME Inv, NEW t \in Pollers, Configure(t) \/ Deconfigure(t)
  PROVE  Inv'
<1>0. /\ t \in Threads /\ ControlOK /\ group \in [Pollers -> Groups]
      /\ read_poll \in [Fifos -> Positions \cup {Null}]
      /\ write_poll \in [Fifos -> Positions \cup {Null}]
  BY DEF Inv, TypeOK, ControlOK, Threads
<1>1. ASSUME NEW f \in Fifos, bind_to_read_poll(t, f) \/ unbind_from_read_poll(t, f)
      PROVE  Inv'
  <2>1. PICK p \in Positions : Forget(p)
    BY <1>0, <1>1, FifoAssumption
       DEF bind_to_read_poll, unbind_from_read_poll, OwnerOnly
  <2>2. group' \in [Pollers -> Groups]
    BY Zenon, <1>0, <2>1, GroupTypes DEF Forget
  <2>3. \/ read_poll' = [read_poll EXCEPT ![f] = ReadPos[f]]
        \/ read_poll' = [read_poll EXCEPT ![f] = Null]
    BY <1>1 DEF bind_to_read_poll, unbind_from_read_poll
  <2>4. /\ read_poll' \in [Fifos -> Positions \cup {Null}]
        /\ \A g \in Fifos : read_poll'[g] \in {Null, ReadPos[g]}
    BY <1>0, <2>3, FifoAssumption DEF Inv, BindOK
  <2> QED
    BY <1>0, <1>1, <2>2, <2>4
       DEF bind_to_read_poll, unbind_from_read_poll, Inv, TypeOK, CallOK, BindOK, fifoVars
<1>2. ASSUME NEW f \in Fifos, bind_to_write_poll(t, f) \/ unbind_from_write_poll(t, f)
      PROVE  Inv'
  <2>1. PICK p \in Positions : Forget(p)
    BY <1>0, <1>2, FifoAssumption
       DEF bind_to_write_poll, unbind_from_write_poll, OwnerOnly
  <2>2. group' \in [Pollers -> Groups]
    BY Zenon, <1>0, <2>1, GroupTypes DEF Forget
  <2>3. \/ write_poll' = [write_poll EXCEPT ![f] = WritePos[f]]
        \/ write_poll' = [write_poll EXCEPT ![f] = Null]
    BY <1>2 DEF bind_to_write_poll, unbind_from_write_poll
  <2>4. /\ write_poll' \in [Fifos -> Positions \cup {Null}]
        /\ \A g \in Fifos : write_poll'[g] \in {Null, WritePos[g]}
    BY <1>0, <2>3, FifoAssumption DEF Inv, BindOK
  <2> QED
    BY <1>0, <1>2, <2>2, <2>4
       DEF bind_to_write_poll, unbind_from_write_poll, Inv, TypeOK, CallOK, BindOK, fifoVars
<1>3. ASSUME NEW f \in Fifos, NEW p \in Positions \cup {Null},
             NEW l \in {"er_check", "ew_check"}, enable_poll(t, f, p, l)
      PROVE  Inv'
  <2> DEFINE c == [NoCall EXCEPT !.op = "enable", !.f = f]
  <2>1. c \in Calls /\ Fits(t, l, c)
    BY Zenon DEF NoCall, Calls, Fits, ReadLabels, WriteLabels, WaitLabels
  <2>2. p \in Positions /\ p.group = t
    BY <1>3 DEF enable_poll, OwnerOnly
  <2>3. group' = [group EXCEPT ![p.group].mask = @ \cup {p.num}]
    BY <1>3, <2>2 DEF enable_poll
  <2>4. group' \in [Pollers -> Groups]
    BY Zenon, <1>0, <2>2, <2>3, GroupTypes
  <2>5. ControlOK'
    BY <1>0, <1>3, <2>1, StepOK DEF enable_poll, Labels, ReadLabels, WriteLabels
  <2> QED
    BY <1>3, <2>4, <2>5 DEF enable_poll, Inv, TypeOK, BindOK, ControlOK, fifoVars
<1>4. ASSUME NEW p \in Positions \cup {Null}, disable_poll(t, p)
      PROVE  Inv'
  <2>1. p \in Positions /\ p.group = t
    BY <1>4 DEF disable_poll, OwnerOnly
  <2>2. group' = [group EXCEPT ![p.group].mask = @ \ {p.num}]
    BY <1>4, <2>1 DEF disable_poll
  <2>3. group' \in [Pollers -> Groups]
    BY Zenon, <1>0, <2>1, <2>2, GroupTypes
  <2> QED
    BY <1>4, <2>3 DEF disable_poll, Inv, TypeOK, CallOK, BindOK, fifoVars
<1>5. ASSUME NEW v \in NonFifoNums, enable_nonfifo_poll(t, v)
      PROVE  Inv'
  <2> DEFINE p == [group |-> t, num |-> v]
  <2>1. p \in Positions
    BY FifoAssumption DEF Positions
  <2>2. group' = [group EXCEPT ![p.group].mask = @ \cup {p.num}]
    BY <1>5 DEF enable_nonfifo_poll
  <2>3. group' \in [Pollers -> Groups]
    BY Zenon, <1>0, <2>1, <2>2, GroupTypes
  <2> QED
    BY <1>5, <2>3 DEF enable_nonfifo_poll, Inv, TypeOK, CallOK, BindOK, fifoVars
<1>6. ASSUME NEW v \in NonFifoNums, disable_nonfifo_poll(t, v)
      PROVE  Inv'
  <2>1. [group |-> t, num |-> v] \in Positions
    BY FifoAssumption DEF Positions
  <2> QED BY <1>4, <1>6, <2>1 DEF disable_nonfifo_poll
<1>7. CASE Configure(t)
  <2>1. \A f \in Fifos : /\ enable_read_poll(t, f) => Inv'
                         /\ enable_write_poll(t, f) => Inv'
    BY <1>0, <1>3 DEF enable_read_poll, enable_write_poll
  <2> QED BY <1>1, <1>2, <1>5, <1>7, <2>1 DEF Configure
<1>8. CASE Deconfigure(t)
  <2>1. \A f \in Fifos : /\ disable_poll(t, read_poll[f]) => Inv'
                         /\ disable_poll(t, write_poll[f]) => Inv'
    BY <1>0, <1>4
  <2> QED BY <1>1, <1>2, <1>6, <1>8, <2>1 DEF Deconfigure
<1> QED BY <1>7, <1>8

LEMMA EnableCheckInv ==
  ASSUME Inv, NEW t \in Threads, enable_check(t)
  PROVE  Inv'
<1> DEFINE c == call[t]
<1>0. ControlOK /\ c \in Calls /\ Fits(t, pc[t], c)
  BY DEF Inv, TypeOK, ControlOK, CallOK
<1>1. Fits(t, "mr_signal", c) /\ Fits(t, "mw_signal", c)
  BY <1>0 DEF enable_check, Fits, ReadLabels, WriteLabels, WaitLabels
<1>2. ControlOK'
  BY <1>0, <1>1, StepOK DEF enable_check, Labels, ReadLabels, WriteLabels
<1> QED BY <1>2 DEF enable_check, Inv, TypeOK, BindOK, ControlOK, fifoVars

LEMMA SpuriousInv ==
  ASSUME Inv, NEW t \in Threads, SpuriousWakeup(t)
  PROVE  Inv'
<1> DEFINE l == CASE pc[t] = "enq_wait" -> "enq_woken"
                  [] pc[t] = "deq_wait" -> "deq_woken"
                  [] OTHER -> "poll_woken"
<1>0. ControlOK /\ Fits(t, pc[t], call[t])
  BY DEF Inv, TypeOK, ControlOK, CallOK
<1>1. /\ pc' = [pc EXCEPT ![t] = l] /\ call' = call
      /\ pc[t] \in {"enq_wait", "deq_wait", "poll_wait"}
  BY DEF SpuriousWakeup
<1>2. l \in Labels /\ Fits(t, l, call[t])
  BY <1>0, <1>1 DEF Fits, Labels, ReadLabels, WriteLabels, WaitLabels, PollLabels
<1>3. pc' \in [Threads -> Labels]
  BY <1>0, <1>1, <1>2 DEF ControlOK
<1>4. ASSUME NEW u \in Threads PROVE Fits(u, pc'[u], call'[u])
  <2>1. CASE u = t
    BY <2>1, <1>0, <1>1, <1>2 DEF ControlOK
  <2>2. CASE u # t
    <3>1. pc'[u] = pc[u]
      BY <2>2, <1>0, <1>1 DEF ControlOK
    <3> QED BY <3>1, <1>0, <1>1 DEF ControlOK, CallOK
  <2> QED BY <2>1, <2>2
<1> QED BY <1>1, <1>3, <1>4 DEF SpuriousWakeup, Inv, TypeOK, BindOK, CallOK

LEMMA CallInv ==
  ASSUME Inv, NEW t \in Threads, Call(t)
  PROVE  Inv'
<1>0. WaitModes \subseteq BOOLEAN
  BY FifoAssumption
<1>1. CASE \E f \in Fifos, m \in Msgs, w \in WaitModes : enqueue(t, f, m, w)
  BY <1>0, <1>1, EnqueueInv
<1>2. CASE \E f \in Fifos, w \in WaitModes : dequeue(t, f, w)
  BY <1>0, <1>2, DequeueInv
<1>3. CASE \E g \in Pollers, v \in NonFifoNums : poll_group_signal(t, g, v)
  BY <1>3, GroupSignalInv
<1>4. CASE t \in Pollers /\ \E w \in WaitModes : poll(t, w)
  BY <1>0, <1>4, PollInv
<1> QED BY <1>1, <1>2, <1>3, <1>4 DEF Call

LEMMA GroupWakeupInv ==
  ASSUME Inv, NEW t \in Threads, poll_group_wakeup(t)
  PROVE  Inv'
<1>0. /\ ControlOK /\ call[t] \in Calls /\ Fits(t, pc[t], call[t])
  BY DEF Inv, TypeOK, ControlOK, CallOK
<1>1. pc[t] = "pg_wakeup" /\ call[t].poll.group \in Pollers
  BY <1>0 DEF poll_group_wakeup, Fits, Positions
<1>2. /\ t \notin PollWaiters(call[t].poll.group)
      /\ PollWaiters(call[t].poll.group) \in SUBSET Threads
  BY <1>1 DEF PollWaiters, Threads
<1>3. ControlOK'
  BY <1>0, <1>1, <1>2, NoCallOK, WaitersFit, StepSignalOK
     DEF poll_group_wakeup, Labels, PollLabels
<1> QED BY <1>3 DEF Inv, TypeOK, BindOK, ControlOK, poll_group_wakeup, fifoVars

LEMMA RunInv ==
  ASSUME Inv, NEW t \in Threads, Run(t)
  PROVE  Inv'
<1>1. CASE Readiness(t)
  BY <1>1, ReadableInv, WritableInv, NonReadyInv DEF Readiness
<1>2. CASE enqueue_woken(t) \/ enqueue_check(t)
  BY <1>2, EnqueueRestInv
<1>3. CASE dequeue_woken(t) \/ dequeue_signal(t)
  BY <1>3, DequeueRestInv
<1>4. CASE poll_woken(t)
  <2>1. t \in Pollers
    BY <1>4 DEF poll_woken, Inv, CallOK, Fits
  <2> QED BY Zenon, <1>4, <2>1, PollInv
<1>5. CASE poll_group_wakeup(t)
  BY <1>5, GroupWakeupInv
<1>6. CASE enable_check(t)
  BY <1>6, EnableCheckInv
<1>7. CASE UsePolled(t)
  BY <1>7, UsePolledInv
<1> QED BY <1>1, <1>2, <1>3, <1>4, <1>5, <1>6, <1>7 DEF Run

LEMMA InitInv == Init => Inv
<1> SUFFICES ASSUME Init PROVE Inv
  OBVIOUS
<1>1. InitRing \in Rings
  BY RingAssumption DEF InitRing, Rings, Slots
<1>2. [ready |-> {}, mask |-> {}, start_pos |-> 0] \in Groups
  <2>1. 0 \in PollNums
    BY MaxFifosType DEF PollNums
  <2> QED BY <2>1 DEF Groups
<1>3. TypeOK
  BY <1>1, <1>2, NoCallOK DEF Init, TypeOK, Labels
<1>4. CallOK
  BY NoCallOK DEF Init, CallOK
<1>5. BindOK
  BY DEF Init, BindOK
<1> QED BY <1>3, <1>4, <1>5 DEF Inv

LEMMA NextInv == Inv /\ [Next]_vars => Inv'
<1> SUFFICES ASSUME Inv, [Next]_vars PROVE Inv'
  OBVIOUS
<1>1. CASE UNCHANGED vars
  BY <1>1 DEF vars, Inv, TypeOK, CallOK, BindOK
<1>2. ASSUME NEW t \in Threads,
             \/ Call(t) \/ Configure(t) \/ Deconfigure(t)
             \/ Run(t) \/ SpuriousWakeup(t)
      PROVE  Inv'
  BY Zenon, <1>2, CallInv, ConfigureInv, RunInv, SpuriousInv DEF Configure, Deconfigure
<1> QED BY <1>1, <1>2 DEF Next

(* Every variable of the FIFOs and poll groups keeps its type, for any     *)
(* number of threads, FIFOs and entries: no index of enqueue, dequeue or   *)
(* poll leaves its ring or its bitmap.                                     *)
THEOREM TypeCorrect == Spec => []TypeOK
<1>1. Inv => TypeOK
  BY DEF Inv
<1> QED BY <1>1, InitInv, NextInv, PTL DEF Spec

-----------------------------------------------------------------------------
(* Read readiness.  A FIFO that needs its bit set has it set, or some      *)
(* thread owes it; every action keeps what the other threads owe, so the   *)
(* proof looks at the thread that takes the step.                          *)
Needs(f) == Enabled(read_poll[f]) /\ ~ is_empty(fifo[f])

Marked(f) == read_poll[f].num \in group[read_poll[f].group].ready

Owing(l, c, f) ==
  /\ c.f = f
  /\ \/ l \in ReadLabels \ {"mr_wakeup"}
     \/ l \in WriteLabels /\ c.was_empty
     \/ l \in WriteLabels /\ c.non_readable

ReadInv == Inv /\ ReadReadiness

LEMMA OwingDef ==
  /\ \A t \in Threads, f \in Fifos :
       OwesReadable(t, f) <=> Owing(pc[t], call[t], f)
  /\ ReadReadiness <=>
       \A f \in Fifos : Needs(f) => Marked(f) \/ \E t \in Threads : OwesReadable(t, f)
BY DEF OwesReadable, Owing, ReadReadiness, Needs, Marked

LEMMA OwingNext ==
  ASSUME NEW t \in Threads, NEW f \in Fifos, NEW l, NEW c,
         pc'[t] = l, call'[t] = c
  PROVE  OwesReadable(t, f)' <=> Owing(l, c, f)
BY DEF OwesReadable, Owing

LEMMA ReadKept ==
  ASSUME NEW f \in Fifos, NEW t \in Threads, ReadReadiness,
         \A u \in Threads : u # t /\ OwesReadable(u, f) => OwesReadable(u, f)',
         Needs(f)' => Needs(f) \/ OwesReadable(t, f)',
         Needs(f)' /\ Needs(f) /\ Marked(f) => Marked(f)' \/ OwesReadable(t, f)',
         Needs(f)' /\ OwesReadable(t, f) => Marked(f)' \/ OwesReadable(t, f)'
  PROVE  Needs(f)' => Marked(f)' \/ \E u \in Threads : OwesReadable(u, f)'
BY OwingDef

(* A step of t leaves what the other threads owe. *)
LEMMA OthersOwe ==
  ASSUME ControlOK, NEW f \in Fifos, NEW t \in Threads, NEW l, NEW c,
         Step(t, l, c)
  PROVE  /\ \A u \in Threads : u # t /\ OwesReadable(u, f) => OwesReadable(u, f)'
         /\ pc'[t] = l /\ call'[t] = Locals(l, c)
<1>1. \A u \in Threads : u # t => pc'[u] = pc[u] /\ call'[u] = call[u]
  BY DEF Step, ControlOK
<1>2. pc'[t] = l /\ call'[t] = Locals(l, c)
  BY DEF Step, ControlOK
<1> QED BY <1>1, <1>2 DEF OwesReadable

(* A step that moves only t and threads that wait. *)
LEMMA OthersOweKept ==
  ASSUME NEW f \in Fifos, NEW t \in Threads, NEW W \in SUBSET Threads,
         \A w \in W : pc[w] \in {"enq_wait", "deq_wait", "poll_wait"},
         \A u \in Threads : u # t /\ u \notin W =>
           pc'[u] = pc[u] /\ call'[u] = call[u]
  PROVE  \A u \in Threads : u # t /\ OwesReadable(u, f) => OwesReadable(u, f)'
<1> SUFFICES ASSUME NEW u \in Threads, u # t, OwesReadable(u, f)
             PROVE  OwesReadable(u, f)'
  OBVIOUS
<1>1. u \notin W
  BY DEF OwesReadable, ReadLabels, WriteLabels
<1>2. pc'[u] = pc[u] /\ call'[u] = call[u]
  BY <1>1
<1> QED BY <1>2 DEF OwesReadable

(* Different places in poll groups belong to different FIFOs, one for      *)
(* reading and one for writing, and neither is a number that is no FIFO.   *)
LEMMA PlacesDiffer ==
  ASSUME NEW f \in Fifos, NEW g \in Fifos
  PROVE  /\ ReadPos[f] # Null /\ ReadPos[f] = ReadPos[g] => f = g
         /\ ReadPos[f] # Null => ReadPos[f] # WritePos[g]
         /\ ReadPos[f] # Null => ReadPos[f].num \notin NonFifoNums
         /\ ReadPos[f] \in Positions \cup {Null}
         /\ WritePos[f] \in Positions \cup {Null}
BY FifoAssumption

(* Clearing the bit of another place leaves the bit of f. *)
LEMMA OtherBits ==
  ASSUME Inv, NEW f \in Fifos, NEW p \in Positions, read_poll[f] # Null,
         read_poll[f] # p,
         \/ group' = [group EXCEPT ![p.group].ready = @ \ {p.num}]
         \/ group' = [group EXCEPT ![p.group].mask = @ \ {p.num},
                                   ![p.group].ready = @ \ {p.num}],
         read_poll'[f] = read_poll[f], Marked(f)
  PROVE  Marked(f)'
<1>1. /\ group \in [Pollers -> Groups]
      /\ read_poll[f] \in Positions
  BY DEF Inv, TypeOK
<1>2. read_poll[f].group # p.group \/ read_poll[f].num # p.num
  BY <1>1 DEF Positions
<1> QED BY <1>1, <1>2 DEF Marked, Groups, Positions

(* Setting a bit, or moving start_pos, leaves the bits of f. *)
LEMMA BitsKept ==
  ASSUME Inv, NEW f \in Fifos, UNCHANGED <<fifo, read_poll>>,
         \/ UNCHANGED group
         \/ \E p \in Positions :
              group' = [group EXCEPT ![p.group].ready = @ \cup {p.num}]
         \/ \E g \in Pollers, v \in PollNums :
              group' = [group EXCEPT ![g].start_pos = v]
  PROVE  /\ Needs(f)' <=> Needs(f)
         /\ Needs(f) /\ Marked(f) => Marked(f)'
<1>1. /\ group \in [Pollers -> Groups]
      /\ read_poll[f] \in Positions \cup {Null}
  BY DEF Inv, TypeOK
<1>2. ASSUME NEW h \in Pollers
      PROVE  /\ group'[h].mask = group[h].mask
             /\ group[h].ready \subseteq group'[h].ready
  <2>1. CASE UNCHANGED group
    BY <2>1
  <2>2. ASSUME NEW p \in Positions,
               group' = [group EXCEPT ![p.group].ready = @ \cup {p.num}]
        PROVE  /\ group'[h].mask = group[h].mask
               /\ group[h].ready \subseteq group'[h].ready
    BY <1>1, <2>2 DEF Groups, Positions
  <2>3. ASSUME NEW g \in Pollers, NEW v \in PollNums,
               group' = [group EXCEPT ![g].start_pos = v]
        PROVE  /\ group'[h].mask = group[h].mask
               /\ group[h].ready \subseteq group'[h].ready
    BY <1>1, <2>3 DEF Groups
  <2> QED BY ZenonT(30), <2>1, <2>2, <2>3
<1> QED BY <1>1, <1>2 DEF Needs, Marked, Enabled, is_empty, Positions

(* After make_writable a thread still owes what it owed before. *)
LEMMA AfterOwes ==
  ASSUME NEW t \in Threads, NEW f \in Fifos, NEW l \in WriteLabels,
         NEW c \in Calls, Fits(t, l, c), Owing(l, c, f)
  PROVE  Owing(AfterWritable(c), Locals(AfterWritable(c), c), f)
BY DEF Owing, Fits, AfterWritable, Locals, Calls, ReadLabels, WriteLabels

LEMMA AfterOwesRead ==
  ASSUME NEW t \in Threads, NEW f \in Fifos, NEW c \in Calls, c = call[t],
         pc[t] \in WriteLabels, Fits(t, pc[t], c),
         pc'[t] = AfterWritable(c), call'[t] = Locals(AfterWritable(c), c)
  PROVE  OwesReadable(t, f) => OwesReadable(t, f)'
<1>1. OwesReadable(t, f) => Owing(pc[t], c, f)
  BY OwingDef
<1>2. Owing(pc[t], c, f) => Owing(AfterWritable(c), Locals(AfterWritable(c), c), f)
  BY AfterOwes
<1>3. Owing(AfterWritable(c), Locals(AfterWritable(c), c), f) => OwesReadable(t, f)'
  BY OwingNext
<1> QED BY <1>1, <1>2, <1>3

LEMMA ReadableRead ==
  ASSUME ReadInv, NEW t \in Threads, make_readable(t), NEW f \in Fifos,
         UNCHANGED <<fifo, out, read_poll, write_poll>>
  PROVE  Needs(f)' => Marked(f)' \/ \E u \in Threads : OwesReadable(u, f)'
<1> DEFINE c == call[t]
<1>0. /\ ControlOK /\ c \in Calls /\ Fits(t, pc[t], c)
      /\ group \in [Pollers -> Groups]
      /\ read_poll \in [Fifos -> Positions \cup {Null}]
      /\ ReadReadiness /\ BindOK
  BY DEF ReadInv, Inv, TypeOK, ControlOK, CallOK
<1>1. CASE /\ pc[t] = "mr_signal"
           /\ StepSignal(t, "mr_fifo", c, ConsumerWaiters(c.f), "deq_woken")
           /\ UNCHANGED group
  <2>1. /\ t \notin ConsumerWaiters(c.f)
        /\ ConsumerWaiters(c.f) \in SUBSET Threads
        /\ \A w \in ConsumerWaiters(c.f) :
             pc[w] \in {"enq_wait", "deq_wait", "poll_wait"}
    BY <1>1 DEF ConsumerWaiters
  <2>2. /\ \A u \in Threads : u # t /\ OwesReadable(u, f) => OwesReadable(u, f)'
        /\ pc'[t] = "mr_fifo" /\ call'[t] = c
    <3>1. Locals("mr_fifo", c) = c
      BY DEF Locals
    <3>2. ControlOK
      BY <1>0
    <3>3. /\ \A u \in Threads : u # t /\ u \notin ConsumerWaiters(c.f) =>
               pc'[u] = pc[u] /\ call'[u] = call[u]
          /\ pc'[t] = "mr_fifo" /\ call'[t] = c
      BY <2>1, <1>1, <3>1, <3>2 DEF StepSignal, ControlOK
    <3> QED BY <2>1, <3>3, OthersOweKept
  <2>3. OwesReadable(t, f) => OwesReadable(t, f)'
    BY <2>2 DEF OwesReadable, ReadLabels
  <2>4. (Needs(f)' <=> Needs(f)) /\ (Marked(f)' <=> Marked(f))
    BY <1>1 DEF Needs, Marked, Enabled, is_empty
  <2> QED BY ZenonT(30), <2>2, <2>3, <2>4, <1>0, ReadKept
<1>2. CASE /\ pc[t] = "mr_fifo"
           /\ Step(t, IF read_poll[c.f] = Null THEN AfterReadable(c) ELSE "mr_poll",
                   [c EXCEPT !.poll = read_poll[c.f]])
           /\ UNCHANGED group
  <2>1. \A u \in Threads : u # t /\ OwesReadable(u, f) => OwesReadable(u, f)'
    BY <1>0, <1>2, OthersOwe
  <2>2. (Needs(f)' <=> Needs(f)) /\ (Marked(f)' <=> Marked(f))
    BY <1>2 DEF Needs, Marked, Enabled, is_empty
  <2>3. Needs(f)' /\ OwesReadable(t, f) => OwesReadable(t, f)'
    <3> SUFFICES ASSUME Needs(f)', c.f = f PROVE OwesReadable(t, f)'
      BY DEF OwesReadable
    <3>1. read_poll[f] # Null
      BY DEF Needs, Enabled
    <3>2. pc'[t] = "mr_poll" /\ call'[t].f = f
      BY <1>0, <1>2, <3>1 DEF Step, Locals, ControlOK, Calls
    <3> QED BY <3>2 DEF OwesReadable, ReadLabels
  <2> QED BY <2>1, <2>2, <2>3, <1>0, ReadKept
<1>3. CASE /\ pc[t] = "mr_poll"
           /\ c.poll.num \in group[c.poll.group].mask
           /\ group' = [group EXCEPT ![c.poll.group].ready = @ \cup {c.poll.num}]
           /\ Step(t, "mr_wakeup", c)
  <2>1. \A u \in Threads : u # t /\ OwesReadable(u, f) => OwesReadable(u, f)'
    BY <1>0, <1>3, OthersOwe
  <2>2. c.poll = ReadPos[c.f] /\ c.poll \in Positions
    BY <1>0, <1>3 DEF Fits, Calls
  <2>3. (Needs(f)' <=> Needs(f)) /\ (Marked(f) /\ Needs(f) => Marked(f)')
    BY ZenonT(30), <1>0, <1>3, <2>2 DEF Needs, Marked, Enabled, is_empty, Groups, Positions
  <2>4. Needs(f) /\ c.f = f => Marked(f)'
    <3> SUFFICES ASSUME Needs(f), c.f = f PROVE Marked(f)'
      OBVIOUS
    <3>1. read_poll[f] = c.poll
      BY <1>0, <2>2 DEF BindOK, Needs, Enabled
    <3> QED BY <1>0, <1>3, <2>2, <3>1 DEF Marked, Groups, Positions
  <2> QED BY ZenonT(30), <2>1, <2>3, <2>4, <1>0, ReadKept DEF OwesReadable
<1>4. CASE /\ pc[t] = "mr_poll"
           /\ c.poll.num \notin group[c.poll.group].mask
           /\ Step(t, AfterReadable(c), c)
           /\ UNCHANGED group
  <2>1. \A u \in Threads : u # t /\ OwesReadable(u, f) => OwesReadable(u, f)'
    BY <1>0, <1>4, OthersOwe
  <2>2. (Needs(f)' <=> Needs(f)) /\ (Marked(f)' <=> Marked(f))
    BY <1>4 DEF Needs, Marked, Enabled, is_empty
  <2>3. Needs(f) => c.f # f
    BY ZenonT(30), <1>0, <1>4 DEF Needs, Enabled, BindOK, Fits
  <2> QED BY ZenonT(30), <2>1, <2>2, <2>3, <1>0, ReadKept DEF OwesReadable
<1>5. CASE /\ pc[t] = "mr_wakeup"
           /\ StepSignal(t, AfterReadable(c), c, PollWaiters(c.poll.group), "poll_woken")
           /\ UNCHANGED group
  <2>1. /\ PollWaiters(c.poll.group) \in SUBSET Threads
        /\ t \notin PollWaiters(c.poll.group)
        /\ \A w \in PollWaiters(c.poll.group) :
             pc[w] \in {"enq_wait", "deq_wait", "poll_wait"}
    BY <1>5 DEF PollWaiters, Threads
  <2>2. \A u \in Threads : u # t /\ OwesReadable(u, f) => OwesReadable(u, f)'
    <3>1. \A u \in Threads : u # t /\ u \notin PollWaiters(c.poll.group) =>
            pc'[u] = pc[u] /\ call'[u] = call[u]
      BY <2>1, <1>0, <1>5 DEF StepSignal, ControlOK
    <3> QED BY <2>1, <3>1, OthersOweKept
  <2>3. (Needs(f)' <=> Needs(f)) /\ (Marked(f)' <=> Marked(f))
    BY <1>5 DEF Needs, Marked, Enabled, is_empty
  <2>4. ~ OwesReadable(t, f)
    BY <1>5 DEF OwesReadable, ReadLabels, WriteLabels
  <2> QED BY ZenonT(30), <2>2, <2>3, <2>4, <1>0, ReadKept
<1> QED BY <1>1, <1>2, <1>3, <1>4, <1>5 DEF make_readable

LEMMA WritableRead ==
  ASSUME ReadInv, NEW t \in Threads, make_writable(t), NEW f \in Fifos,
         UNCHANGED <<fifo, out, read_poll, write_poll>>
  PROVE  Needs(f)' => Marked(f)' \/ \E u \in Threads : OwesReadable(u, f)'
<1> DEFINE c == call[t]
<1>0. /\ Inv /\ ControlOK /\ c \in Calls /\ Fits(t, pc[t], c) /\ ReadReadiness
  BY DEF ReadInv, Inv, TypeOK, ControlOK, CallOK
<1>1. pc[t] \in {"mw_signal", "mw_fifo", "mw_poll", "mw_wakeup"}
  BY DEF make_writable
<1>2. /\ Needs(f)' <=> Needs(f)
      /\ Needs(f) /\ Marked(f) => Marked(f)'
  <2>1. pc[t] = "mw_poll" => c.poll \in Positions
    BY <1>0 DEF Fits, Calls
  <2>2. \/ UNCHANGED group
        \/ /\ c.poll \in Positions
           /\ group' = [group EXCEPT ![c.poll.group].ready = @ \cup {c.poll.num}]
    BY <2>1 DEF make_writable
  <2> QED BY ZenonT(30), <1>0, <2>2, BitsKept
<1>3. CASE /\ pc[t] = "mw_signal"
           /\ StepSignal(t, "mw_fifo", c, ProducerWaiters(c.f), "enq_woken")
  <2>1. /\ t \notin ProducerWaiters(c.f)
        /\ ProducerWaiters(c.f) \in SUBSET Threads
        /\ \A w \in ProducerWaiters(c.f) :
             pc[w] \in {"enq_wait", "deq_wait", "poll_wait"}
    BY <1>3 DEF ProducerWaiters
  <2>2. /\ \A u \in Threads : u # t /\ OwesReadable(u, f) => OwesReadable(u, f)'
        /\ pc'[t] = "mw_fifo" /\ call'[t] = c
    <3>1. Locals("mw_fifo", c) = c
      BY DEF Locals
    <3>2. ControlOK
      BY <1>0
    <3>3. /\ \A u \in Threads : u # t /\ u \notin ProducerWaiters(c.f) =>
               pc'[u] = pc[u] /\ call'[u] = call[u]
          /\ pc'[t] = "mw_fifo" /\ call'[t] = c
      BY <2>1, <1>3, <3>1, <3>2 DEF StepSignal, ControlOK
    <3> QED BY <2>1, <3>3, OthersOweKept
  <2>3. OwesReadable(t, f) => OwesReadable(t, f)'
    BY <1>3, <2>2 DEF OwesReadable, ReadLabels, WriteLabels
  <2> QED BY ZenonT(30), <1>0, <1>2, <2>2, <2>3, ReadKept
<1>4. CASE /\ pc[t] = "mw_fifo"
           /\ Step(t, IF write_poll[c.f] = Null THEN AfterWritable(c) ELSE "mw_poll",
                   [c EXCEPT !.poll = write_poll[c.f]])
  <2> DEFINE d == [c EXCEPT !.poll = write_poll[c.f]]
             l == IF write_poll[c.f] = Null THEN AfterWritable(c) ELSE "mw_poll"
  <2>1. /\ \A u \in Threads : u # t /\ OwesReadable(u, f) => OwesReadable(u, f)'
        /\ pc'[t] = l /\ call'[t] = Locals(l, d)
    BY <1>0, <1>4, OthersOwe
  <2>2. Owing("mw_fifo", c, f) => Owing(AfterWritable(c), Locals(AfterWritable(c), c), f)
    BY <1>0, <1>4, AfterOwes DEF WriteLabels
  <2>3. Owing("mw_fifo", c, f) => Owing(l, Locals(l, d), f)
    BY <1>0, <2>2 DEF Owing, Locals, Calls, ReadLabels, WriteLabels, NoCall
  <2>4. OwesReadable(t, f) => OwesReadable(t, f)'
    <3>1. OwesReadable(t, f) => Owing("mw_fifo", c, f)
      BY <1>4, OwingDef
    <3>2. Owing(l, Locals(l, d), f) => OwesReadable(t, f)'
      BY <2>1, OwingNext
    <3> QED BY <2>3, <3>1, <3>2
  <2> QED BY <1>0, <1>2, <2>1, <2>4, ReadKept
<1>5. CASE pc[t] = "mw_poll" /\ Step(t, "mw_wakeup", c)
  <2>1. /\ \A u \in Threads : u # t /\ OwesReadable(u, f) => OwesReadable(u, f)'
        /\ pc'[t] = "mw_wakeup" /\ call'[t] = c
    <3>1. Locals("mw_wakeup", c) = c
      BY DEF Locals
    <3>2. ControlOK
      BY <1>0
    <3> QED BY <1>5, <3>1, <3>2, OthersOwe
  <2>2. OwesReadable(t, f) => OwesReadable(t, f)'
    BY <1>5, <2>1 DEF OwesReadable, ReadLabels, WriteLabels
  <2> QED BY ZenonT(30), <1>0, <1>2, <2>1, <2>2, ReadKept
<1>6. CASE pc[t] = "mw_poll" /\ Step(t, AfterWritable(c), c)
  <2>1. /\ \A u \in Threads : u # t /\ OwesReadable(u, f) => OwesReadable(u, f)'
        /\ pc'[t] = AfterWritable(c) /\ call'[t] = Locals(AfterWritable(c), c)
    BY <1>0, <1>6, OthersOwe
  <2>2. OwesReadable(t, f) => OwesReadable(t, f)'
    <3>1. pc[t] \in WriteLabels
      BY <1>6 DEF WriteLabels
    <3> QED BY <1>0, <2>1, <3>1, AfterOwesRead
  <2> QED BY ZenonT(30), <1>0, <1>2, <2>1, <2>2, ReadKept
<1>7. CASE /\ pc[t] = "mw_wakeup"
           /\ StepSignal(t, AfterWritable(c), c, PollWaiters(c.poll.group), "poll_woken")
  <2>1. /\ PollWaiters(c.poll.group) \in SUBSET Threads
        /\ t \notin PollWaiters(c.poll.group)
        /\ \A w \in PollWaiters(c.poll.group) :
             pc[w] \in {"enq_wait", "deq_wait", "poll_wait"}
    BY <1>7 DEF PollWaiters, Threads
  <2>2. /\ \A u \in Threads : u # t /\ OwesReadable(u, f) => OwesReadable(u, f)'
        /\ pc'[t] = AfterWritable(c) /\ call'[t] = Locals(AfterWritable(c), c)
    <3>1. ControlOK
      BY <1>0
    <3>2. /\ \A u \in Threads : u # t /\ u \notin PollWaiters(c.poll.group) =>
               pc'[u] = pc[u] /\ call'[u] = call[u]
          /\ pc'[t] = AfterWritable(c) /\ call'[t] = Locals(AfterWritable(c), c)
      BY <2>1, <1>7, <3>1 DEF StepSignal, ControlOK
    <3> QED BY <2>1, <3>2, OthersOweKept
  <2>3. OwesReadable(t, f) => OwesReadable(t, f)'
    <3>1. pc[t] \in WriteLabels
      BY <1>7 DEF WriteLabels
    <3> QED BY <1>0, <2>2, <3>1, AfterOwesRead
  <2> QED BY Zenon, <1>0, <1>2, <2>2, <2>3, ReadKept
<1> QED BY <1>3, <1>4, <1>5, <1>6, <1>7 DEF make_writable

LEMMA NonReadyRead ==
  ASSUME ReadInv, NEW t \in Threads, NEW f \in Fifos,
         make_non_readable_after_dequeue(t) \/ mark_non_writable(t),
         UNCHANGED <<fifo, out, read_poll, write_poll>>
  PROVE  Needs(f)' => Marked(f)' \/ \E u \in Threads : OwesReadable(u, f)'
<1> DEFINE c == call[t]
<1>0. /\ Inv /\ ControlOK /\ c \in Calls /\ Fits(t, pc[t], c)
      /\ group \in [Pollers -> Groups]
      /\ read_poll \in [Fifos -> Positions \cup {Null}]
      /\ ReadReadiness /\ BindOK
  BY DEF ReadInv, Inv, TypeOK, ControlOK, CallOK
<1>1. ASSUME NEW l \in {"mnr_check", "mnr_poll", "mnw_poll", "enq_check"},
             NEW q, pc[t] \in {"mnr_fifo", "mnw_fifo"},
             pc[t] = "mnr_fifo" <=> l \in {"mnr_check", "mnr_poll"},
             Step(t, l, [c EXCEPT !.poll = q]), UNCHANGED group
      PROVE  Needs(f)' => Marked(f)' \/ \E u \in Threads : OwesReadable(u, f)'
  <2>1. \A u \in Threads : u # t /\ OwesReadable(u, f) => OwesReadable(u, f)'
    BY <1>0, <1>1, OthersOwe
  <2>2. (Needs(f)' <=> Needs(f)) /\ (Marked(f)' <=> Marked(f))
    BY <1>1 DEF Needs, Marked, Enabled, is_empty
  <2>3. pc'[t] = l /\ call'[t] = [c EXCEPT !.poll = q]
    BY <1>0, <1>1 DEF Step, Locals, ControlOK
  <2>4. OwesReadable(t, f) => OwesReadable(t, f)'
    BY <1>0, <1>1, <2>3 DEF OwesReadable, ReadLabels, WriteLabels, Calls
  <2> QED BY <1>0, <2>1, <2>2, <2>4, ReadKept
<1>2. CASE /\ pc[t] = "mnr_poll"
           /\ group' = [group EXCEPT ![c.poll.group].ready = @ \ {c.poll.num}]
           /\ Step(t, "mnr_check", c)
  <2>1. \A u \in Threads : u # t /\ OwesReadable(u, f) => OwesReadable(u, f)'
    BY <1>0, <1>2, OthersOwe
  <2>2. c.poll = ReadPos[c.f] /\ c.poll \in Positions /\ c.f \in Fifos
    BY <1>0, <1>2 DEF Fits, Calls, ReadLabels
  <2>3. pc'[t] = "mnr_check" /\ call'[t] = c
    BY <1>0, <1>2 DEF Step, Locals, ControlOK
  <2>4. c.f = f => OwesReadable(t, f)'
    BY ZenonT(30), <2>3 DEF OwesReadable, ReadLabels
  <2>5. Needs(f)' => Needs(f)
    <3>1. c.poll.group \in Pollers
      BY <2>2 DEF Positions
    <3>2. \A h \in Pollers : group'[h].mask = group[h].mask
      BY <1>0, <1>2, <3>1 DEF Groups
    <3>3. read_poll[f] # Null => read_poll[f].group \in Pollers
      BY <1>0 DEF Positions
    <3> QED BY ZenonT(30), <3>2, <3>3 DEF Needs, Enabled, is_empty
  <2>6. Needs(f) /\ Marked(f) /\ c.f # f => Marked(f)'
    <3> SUFFICES ASSUME Needs(f), Marked(f), c.f # f PROVE Marked(f)'
      OBVIOUS
    <3>1. read_poll[f] # Null /\ read_poll[f] = ReadPos[f]
      BY <1>0 DEF Needs, Enabled, BindOK
    <3>2. read_poll[f] # c.poll
      BY <2>2, <3>1, PlacesDiffer
    <3> QED BY ZenonT(30), <1>0, <1>2, <2>2, <3>1, <3>2, OtherBits
  <2> QED BY ZenonT(30), <1>0, <2>1, <2>4, <2>5, <2>6, ReadKept DEF OwesReadable
<1>3. CASE /\ pc[t] = "mnr_check"
           /\ Step(t, IF is_empty(fifo[c.f]) THEN AfterReadable(c) ELSE "mr_signal", c)
           /\ UNCHANGED group
  <2>1. \A u \in Threads : u # t /\ OwesReadable(u, f) => OwesReadable(u, f)'
    BY ZenonT(30), <1>0, <1>3, OthersOwe
  <2>2. (Needs(f)' <=> Needs(f)) /\ (Marked(f)' <=> Marked(f))
    BY ZenonT(30), <1>3 DEF Needs, Marked, Enabled, is_empty
  <2>3. Needs(f) /\ c.f = f => OwesReadable(t, f)'
    <3> SUFFICES ASSUME Needs(f), c.f = f PROVE OwesReadable(t, f)'
      OBVIOUS
    <3>1. pc'[t] = "mr_signal" /\ call'[t] = c
      BY ZenonT(30), <1>0, <1>3 DEF Step, Locals, ControlOK, Needs
    <3> QED BY <3>1 DEF OwesReadable, ReadLabels
  <2> QED BY ZenonT(30), <1>0, <2>1, <2>2, <2>3, ReadKept DEF OwesReadable
<1>4. CASE /\ pc[t] = "mnw_poll"
           /\ group' = [group EXCEPT ![c.poll.group].ready = @ \ {c.poll.num}]
           /\ Step(t, "enq_check", c)
  <2>1. \A u \in Threads : u # t /\ OwesReadable(u, f) => OwesReadable(u, f)'
    BY <1>0, <1>4, OthersOwe
  <2>2. c.poll = WritePos[c.f] /\ c.poll \in Positions /\ c.f \in Fifos
    BY <1>0, <1>4 DEF Fits, Calls, WriteLabels
  <2>3. pc'[t] = "enq_check" /\ call'[t] = c
    BY <1>0, <1>4 DEF Step, Locals, ControlOK
  <2>4. OwesReadable(t, f) => OwesReadable(t, f)'
    BY <1>4, <2>3 DEF OwesReadable, ReadLabels, WriteLabels
  <2>5. Needs(f)' => Needs(f)
    <3>1. c.poll.group \in Pollers
      BY <2>2 DEF Positions
    <3>2. \A h \in Pollers : group'[h].mask = group[h].mask
      BY <1>0, <1>4, <3>1 DEF Groups
    <3>3. read_poll[f] # Null => read_poll[f].group \in Pollers
      BY <1>0 DEF Positions
    <3> QED BY <3>2, <3>3 DEF Needs, Enabled, is_empty
  <2>6. Needs(f) /\ Marked(f) => Marked(f)'
    <3> SUFFICES ASSUME Needs(f), Marked(f) PROVE Marked(f)'
      OBVIOUS
    <3>1. read_poll[f] # Null /\ read_poll[f] = ReadPos[f]
      BY <1>0 DEF Needs, Enabled, BindOK
    <3>2. read_poll[f] # c.poll
      BY <2>2, <3>1, PlacesDiffer
    <3> QED BY ZenonT(30), <1>0, <1>4, <2>2, <3>1, <3>2, OtherBits
  <2> QED BY ZenonT(30), <1>0, <2>1, <2>4, <2>5, <2>6, ReadKept
<1>5. CASE pc[t] = "mnr_fifo" /\ mark_non_readable(t)
  <2>1. CASE read_poll[c.f] = Null
    BY <1>1, <1>5, <2>1 DEF mark_non_readable
  <2>2. CASE read_poll[c.f] # Null
    BY <1>1, <1>5, <2>2 DEF mark_non_readable
  <2> QED BY <2>1, <2>2
<1>6. CASE pc[t] = "mnw_fifo" /\ mark_non_writable(t)
  <2>1. CASE write_poll[c.f] = Null
    BY <1>1, <1>6, <2>1 DEF mark_non_writable
  <2>2. CASE write_poll[c.f] # Null
    BY <1>1, <1>6, <2>2 DEF mark_non_writable
  <2> QED BY <2>1, <2>2
<1> QED
  BY <1>2, <1>3, <1>4, <1>5, <1>6
     DEF make_non_readable_after_dequeue, mark_non_readable, mark_non_writable

(* A step that leaves the rings, the bindings and the groups alone, and    *)
(* after which t owes what it owed.                                        *)
LEMMA QuietRead ==
  ASSUME ReadInv, NEW t \in Threads, NEW f \in Fifos, NEW l, NEW c,
         Step(t, l, c), UNCHANGED <<fifo, read_poll, group>>,
         OwesReadable(t, f) /\ Needs(f) => Owing(l, Locals(l, c), f)
  PROVE  Needs(f)' => Marked(f)' \/ \E u \in Threads : OwesReadable(u, f)'
<1>0. ControlOK /\ ReadReadiness
  BY DEF ReadInv, Inv, TypeOK, ControlOK
<1>1. /\ \A u \in Threads : u # t /\ OwesReadable(u, f) => OwesReadable(u, f)'
      /\ pc'[t] = l /\ call'[t] = Locals(l, c)
  BY <1>0, OthersOwe
<1>2. (Needs(f)' <=> Needs(f)) /\ (Marked(f)' <=> Marked(f))
  BY DEF Needs, Marked, Enabled, is_empty
<1>3. OwesReadable(t, f) /\ Needs(f) => OwesReadable(t, f)'
  BY Zenon, <1>1 DEF OwesReadable, Owing
<1> QED BY ZenonT(30), <1>0, <1>1, <1>2, <1>3, ReadKept

(* An enqueue that finds the ring empty owes the bit; one that does not    *)
(* leaves a bit that was set, or that another thread owed.                 *)
LEMMA EnqueueWorkRead ==
  ASSUME ReadInv, NEW t \in Threads, NEW g \in Fifos, NEW m, NEW f \in Fifos,
         pc[t] \in {"idle", "enq_woken", "polled"},
         EnqueueWork(t, g, m), UNCHANGED <<read_poll, write_poll, group>>
  PROVE  Needs(f)' => Marked(f)' \/ \E u \in Threads : OwesReadable(u, f)'
<1> DEFINE r == Push(fifo[g], m)
           we == fifo[g].producer = fifo[g].consumer
           c == [NoCall EXCEPT !.op = "enqueue", !.f = g, !.was_empty = we]
           l == IF r.producer = r.consumer THEN "mnw_fifo"
                ELSE IF we THEN "mr_signal" ELSE "idle"
<1>0. ControlOK /\ ReadReadiness /\ fifo \in [Fifos -> Rings]
  BY DEF ReadInv, Inv, TypeOK, ControlOK
<1>1. Step(t, l, c) /\ fifo' = [fifo EXCEPT ![g] = r]
  BY DEF EnqueueWork
<1>2. /\ \A u \in Threads : u # t /\ OwesReadable(u, f) => OwesReadable(u, f)'
      /\ pc'[t] = l /\ call'[t] = Locals(l, c)
  BY <1>0, <1>1, OthersOwe
<1>3. Marked(f)' <=> Marked(f)
  BY DEF Marked
<1>4. ~ OwesReadable(t, f)
  BY DEF OwesReadable, ReadLabels, WriteLabels
<1>5. f # g => (Needs(f)' <=> Needs(f))
  BY <1>0, <1>1 DEF Needs, Enabled, is_empty
<1>6. f = g /\ we => OwesReadable(t, f)'
  <2> SUFFICES ASSUME f = g, we PROVE OwesReadable(t, f)'
    OBVIOUS
  <2>1. l \in {"mnw_fifo", "mr_signal"}
    OBVIOUS
  <2>2. call'[t] = c
    BY <1>2, <2>1 DEF Locals
  <2>3. c.f = f /\ c.was_empty
    BY Zenon DEF NoCall
  <2> QED BY Zenon, <1>2, <2>1, <2>2, <2>3 DEF OwesReadable, ReadLabels, WriteLabels
<1>7. f = g /\ ~ we => (Needs(f)' => Needs(f))
  BY <1>0 DEF Needs, Enabled, is_empty
<1> QED BY <1>0, <1>2, <1>3, <1>4, <1>5, <1>6, <1>7, ReadKept

LEMMA EnqueueRead ==
  ASSUME ReadInv, NEW t \in Threads, NEW g \in Fifos, NEW m, NEW wait \in BOOLEAN,
         pc[t] \in {"idle", "polled"}, enqueue(t, g, m, wait), NEW f \in Fifos
  PROVE  Needs(f)' => Marked(f)' \/ \E u \in Threads : OwesReadable(u, f)'
<1>1. ~ OwesReadable(t, f)
  BY DEF OwesReadable, ReadLabels, WriteLabels
<1>2. UNCHANGED <<read_poll, write_poll, group>>
  BY DEF enqueue
<1>3. CASE EnqueueWork(t, g, m)
  BY <1>2, <1>3, EnqueueWorkRead
<1>4. CASE Step(t, "idle", NoCall) /\ UNCHANGED fifoVars
  BY <1>1, <1>2, <1>4, QuietRead DEF fifoVars
<1>5. CASE /\ Step(t, "enq_wait",
                   [NoCall EXCEPT !.op = "enqueue", !.f = g, !.msg = m])
           /\ UNCHANGED fifoVars
  BY <1>1, <1>2, <1>5, QuietRead DEF fifoVars
<1> QED BY <1>3, <1>4, <1>5 DEF enqueue

LEMMA EnqueueRestRead ==
  ASSUME ReadInv, NEW t \in Threads, enqueue_woken(t) \/ enqueue_check(t),
         NEW f \in Fifos
  PROVE  Needs(f)' => Marked(f)' \/ \E u \in Threads : OwesReadable(u, f)'
<1> DEFINE c == call[t]
<1>0. c \in Calls /\ Fits(t, pc[t], c)
  BY DEF ReadInv, Inv, TypeOK, CallOK
<1>1. UNCHANGED <<read_poll, write_poll, group>>
  BY DEF enqueue_woken, enqueue_check
<1>2. CASE enqueue_woken(t)
  <2>1. pc[t] = "enq_woken"
    BY <1>2 DEF enqueue_woken
  <2>2. ~ OwesReadable(t, f)
    BY <2>1 DEF OwesReadable, ReadLabels, WriteLabels
  <2>3. CASE EnqueueWork(t, c.f, c.msg)
    <3>1. c.f \in Fifos
      BY <1>0, <2>1 DEF Fits, WaitLabels
    <3> QED BY ZenonT(30), <1>1, <2>1, <2>3, <3>1, EnqueueWorkRead
  <2>4. CASE Step(t, "enq_wait", c) /\ UNCHANGED fifoVars
    BY <1>1, <2>2, <2>4, QuietRead DEF fifoVars
  <2> QED BY ZenonT(30), <1>2, <2>3, <2>4 DEF enqueue_woken
<1>3. CASE enqueue_check(t)
  <2>1. pc[t] = "enq_check" /\ UNCHANGED fifo
    BY <1>3 DEF enqueue_check, fifoVars
  <2>2. CASE Step(t, "mw_signal", c)
    <3>1. OwesReadable(t, f) => Owing("mw_signal", Locals("mw_signal", c), f)
      BY <2>1 DEF OwesReadable, Owing, ReadLabels, WriteLabels, Locals
    <3> QED BY ZenonT(30), <1>1, <2>1, <2>2, <3>1, QuietRead
  <2>3. CASE Step(t, AfterWritable(c), c)
    <3>1. OwesReadable(t, f) => Owing(pc[t], c, f)
      BY DEF OwesReadable, Owing
    <3>2. pc[t] \in WriteLabels
      BY <2>1 DEF WriteLabels
    <3>3. OwesReadable(t, f)
            => Owing(AfterWritable(c), Locals(AfterWritable(c), c), f)
      BY ZenonT(30), <1>0, <3>1, <3>2, AfterOwes
    <3> QED BY ZenonT(30), <1>1, <2>1, <2>3, <3>3, QuietRead
  <2> QED BY <1>3, <2>2, <2>3 DEF enqueue_check
<1> QED BY <1>2, <1>3

(* A dequeue takes a message from a ring that was not empty, so a FIFO     *)
(* that needs its bit afterwards needed it before.                         *)
LEMMA DequeueWorkRead ==
  ASSUME ReadInv, NEW t \in Threads, NEW g \in Fifos, NEW f \in Fifos,
         pc[t] \in {"idle", "deq_woken", "polled"}, ~ is_empty(fifo[g]),
         DequeueWork(t, g), UNCHANGED <<read_poll, write_poll, group>>
  PROVE  Needs(f)' => Marked(f)' \/ \E u \in Threads : OwesReadable(u, f)'
<1>0. ControlOK /\ ReadReadiness /\ fifo \in [Fifos -> Rings]
  BY DEF ReadInv, Inv, TypeOK, ControlOK
<1>1. PICK l, c : Step(t, l, c)
  BY DEF DequeueWork
<1>2. \A u \in Threads : u # t /\ OwesReadable(u, f) => OwesReadable(u, f)'
  BY ZenonT(30), <1>0, <1>1, OthersOwe
<1>3. Marked(f)' <=> Marked(f)
  BY DEF Marked
<1>4. ~ OwesReadable(t, f)
  BY DEF OwesReadable, ReadLabels, WriteLabels
<1>5. fifo' = [fifo EXCEPT ![g] = Pop(fifo[g])]
  BY DEF DequeueWork
<1>6. Needs(f)' => Needs(f)
  <2>1. CASE f = g
    BY <2>1 DEF Needs, Enabled
  <2>2. CASE f # g
    BY <1>0, <1>5, <2>2 DEF Needs, Enabled, is_empty
  <2> QED BY <2>1, <2>2
<1> QED BY <1>0, <1>2, <1>3, <1>4, <1>6, ReadKept

LEMMA DequeueRead ==
  ASSUME ReadInv, NEW t \in Threads, NEW g \in Fifos, NEW wait \in BOOLEAN,
         pc[t] \in {"idle", "polled"}, dequeue(t, g, wait), NEW f \in Fifos
  PROVE  Needs(f)' => Marked(f)' \/ \E u \in Threads : OwesReadable(u, f)'
<1>1. ~ OwesReadable(t, f)
  BY DEF OwesReadable, ReadLabels, WriteLabels
<1>2. UNCHANGED <<read_poll, write_poll, group>>
  BY DEF dequeue
<1>3. CASE ~ is_empty(fifo[g]) /\ DequeueWork(t, g)
  BY <1>2, <1>3, DequeueWorkRead
<1>4. CASE /\ Step(t, IF wait THEN "deq_wait" ELSE "mnr_fifo",
                   [NoCall EXCEPT !.op = "dequeue", !.f = g])
           /\ UNCHANGED fifoVars
  BY <1>1, <1>2, <1>4, QuietRead DEF fifoVars
<1> QED BY <1>3, <1>4 DEF dequeue

LEMMA SignalRead ==
  ASSUME ReadInv, NEW t \in Threads, NEW f \in Fifos,
         NEW W \in SUBSET Threads, NEW l2, t \notin W,
         \A w \in W : pc[w] \in {"enq_wait", "deq_wait", "poll_wait"},
         StepSignal(t, "idle", NoCall, W, l2),
         pc[t] \in {"deq_signal", "pg_wakeup"},
         UNCHANGED <<fifo, read_poll, group>>
  PROVE  Needs(f)' => Marked(f)' \/ \E u \in Threads : OwesReadable(u, f)'
<1>0. ControlOK /\ ReadReadiness
  BY DEF ReadInv, Inv, TypeOK, ControlOK
<1>1. \A u \in Threads : u # t /\ OwesReadable(u, f) => OwesReadable(u, f)'
  <2>1. \A u \in Threads : u # t /\ u \notin W =>
          pc'[u] = pc[u] /\ call'[u] = call[u]
    BY <1>0 DEF StepSignal, ControlOK
  <2> QED BY Zenon, <2>1, OthersOweKept
<1>2. (Needs(f)' <=> Needs(f)) /\ (Marked(f)' <=> Marked(f))
  BY DEF Needs, Marked, Enabled, is_empty
<1>3. ~ OwesReadable(t, f)
  BY DEF OwesReadable, ReadLabels, WriteLabels
<1> QED BY <1>0, <1>1, <1>2, <1>3, ReadKept

LEMMA DequeueRestRead ==
  ASSUME ReadInv, NEW t \in Threads, dequeue_woken(t) \/ dequeue_signal(t),
         NEW f \in Fifos
  PROVE  Needs(f)' => Marked(f)' \/ \E u \in Threads : OwesReadable(u, f)'
<1> DEFINE c == call[t]
<1>0. c \in Calls /\ Fits(t, pc[t], c)
  BY DEF ReadInv, Inv, TypeOK, CallOK
<1>1. UNCHANGED <<read_poll, write_poll, group>>
  BY DEF dequeue_woken, dequeue_signal
<1>2. CASE dequeue_woken(t)
  <2>1. pc[t] = "deq_woken"
    BY <1>2 DEF dequeue_woken
  <2>2. ~ OwesReadable(t, f)
    BY <2>1 DEF OwesReadable, ReadLabels, WriteLabels
  <2>3. CASE ~ is_empty(fifo[c.f]) /\ DequeueWork(t, c.f)
    <3>1. c.f \in Fifos
      BY <1>0, <2>1 DEF Fits, WaitLabels
    <3> QED BY <1>1, <2>1, <2>3, <3>1, DequeueWorkRead
  <2>4. CASE Step(t, "deq_wait", c) /\ UNCHANGED fifoVars
    BY <1>1, <2>2, <2>4, QuietRead DEF fifoVars
  <2> QED BY <1>2, <2>3, <2>4 DEF dequeue_woken
<1>3. CASE dequeue_signal(t)
  <2>1. pc[t] = "deq_signal" /\ UNCHANGED fifo
    BY <1>3 DEF dequeue_signal, fifoVars
  <2>2. /\ ProducerWaiters(c.f) \in SUBSET Threads
        /\ t \notin ProducerWaiters(c.f)
        /\ \A w \in ProducerWaiters(c.f) :
             pc[w] \in {"enq_wait", "deq_wait", "poll_wait"}
    BY <2>1 DEF ProducerWaiters
  <2>3. StepSignal(t, "idle", NoCall, ProducerWaiters(c.f), "enq_woken")
    BY <1>3 DEF dequeue_signal
  <2> QED BY <1>1, <2>1, <2>2, <2>3, SignalRead
<1> QED BY <1>2, <1>3

LEMMA PollRead ==
  ASSUME ReadInv, NEW t \in Pollers, NEW w \in BOOLEAN, NEW f \in Fifos,
         (pc[t] = "idle" /\ poll(t, w)) \/ poll_woken(t)
  PROVE  Needs(f)' => Marked(f)' \/ \E u \in Threads : OwesReadable(u, f)'
<1> DEFINE v == Found(t)
<1>0. /\ t \in Threads /\ Inv /\ ControlOK /\ ReadReadiness
      /\ group \in [Pollers -> Groups]
  BY DEF ReadInv, Inv, TypeOK, ControlOK, Threads
<1>1. UNCHANGED <<fifo, read_poll>> /\ pc[t] \in {"idle", "poll_woken"}
  BY DEF poll, poll_woken, fifoVars
<1>2. ~ OwesReadable(t, f)
  BY <1>1 DEF OwesReadable, ReadLabels, WriteLabels
<1>3. PICK l, c : Step(t, l, c)
  BY DEF poll, poll_woken, Polled
<1>4. \A u \in Threads : u # t /\ OwesReadable(u, f) => OwesReadable(u, f)'
  BY <1>0, <1>3, OthersOwe
<1>5. \/ UNCHANGED group
      \/ \E g \in Pollers, s \in PollNums :
           group' = [group EXCEPT ![g].start_pos = s]
  <2>1. CASE v < MaxFifos /\ group' = [group EXCEPT ![t].start_pos = (v + 1) % MaxFifos]
    <3>1. v \in PollNums
      BY <1>0, <2>1, FoundOK DEF Inv
    <3>2. (v + 1) % MaxFifos \in PollNums
      BY <3>1, MaxFifosType DEF PollNums
    <3> QED BY Zenon, <2>1, <3>2
  <2>2. CASE UNCHANGED group
    BY <2>2
  <2> QED BY <2>1, <2>2 DEF poll, poll_woken
<1>6. (Needs(f)' <=> Needs(f)) /\ (Needs(f) /\ Marked(f) => Marked(f)')
  BY <1>0, <1>1, <1>5, BitsKept
<1> QED BY <1>0, <1>2, <1>4, <1>6, ReadKept

(* A change of the group at a place that is not where f is bound. *)
LEMMA OtherPlace ==
  ASSUME Inv, NEW f \in Fifos, NEW p \in Positions, read_poll[f] # p,
         UNCHANGED fifo, read_poll'[f] = read_poll[f],
         \/ Forget(p)
         \/ group' = [group EXCEPT ![p.group].ready = @ \ {p.num}]
         \/ group' = [group EXCEPT ![p.group].ready = @ \cup {p.num}]
         \/ group' = [group EXCEPT ![p.group].mask = @ \cup {p.num}]
         \/ group' = [group EXCEPT ![p.group].mask = @ \ {p.num}]
  PROVE  /\ Needs(f)' => Needs(f)
         /\ Needs(f) /\ Marked(f) => Marked(f)'
<1> SUFFICES ASSUME read_poll[f] # Null
             PROVE  /\ Needs(f)' => Needs(f)
                    /\ Needs(f) /\ Marked(f) => Marked(f)'
  BY DEF Needs, Enabled
<1> DEFINE h == read_poll[f].group
           n == read_poll[f].num
<1>1. /\ group \in [Pollers -> Groups]
      /\ read_poll[f] \in Positions
      /\ h \in Pollers /\ p.group \in Pollers
  BY DEF Inv, TypeOK, Positions
<1>2. h # p.group \/ n # p.num
  BY <1>1 DEF Positions
<1>3. /\ n \in group'[h].mask <=> n \in group[h].mask
      /\ n \in group'[h].ready <=> n \in group[h].ready
  <2>1. CASE Forget(p)
    BY <1>1, <1>2, <2>1 DEF Forget, Groups
  <2>2. CASE \/ group' = [group EXCEPT ![p.group].ready = @ \ {p.num}]
             \/ group' = [group EXCEPT ![p.group].ready = @ \cup {p.num}]
    BY <1>1, <1>2, <2>2 DEF Groups
  <2>3. CASE \/ group' = [group EXCEPT ![p.group].mask = @ \ {p.num}]
             \/ group' = [group EXCEPT ![p.group].mask = @ \cup {p.num}]
    BY <1>1, <1>2, <2>3 DEF Groups
  <2> QED BY <2>1, <2>2, <2>3
<1> QED BY <1>3 DEF Needs, Marked, Enabled, is_empty

(* The same, as a step of t that owed nothing. *)
LEMMA OtherPlaceRead ==
  ASSUME ReadInv, NEW t \in Threads, NEW f \in Fifos, NEW p \in Positions,
         read_poll[f] # p, UNCHANGED fifo, read_poll'[f] = read_poll[f],
         \/ Forget(p)
         \/ group' = [group EXCEPT ![p.group].ready = @ \ {p.num}]
         \/ group' = [group EXCEPT ![p.group].ready = @ \cup {p.num}]
         \/ group' = [group EXCEPT ![p.group].mask = @ \cup {p.num}]
         \/ group' = [group EXCEPT ![p.group].mask = @ \ {p.num}],
         pc[t] \in {"idle", "polled"},
         UNCHANGED <<pc, call>> \/ \E l, c : Step(t, l, c)
  PROVE  Needs(f)' => Marked(f)' \/ \E u \in Threads : OwesReadable(u, f)'
<1>0. Inv /\ ControlOK /\ ReadReadiness
  BY DEF ReadInv, Inv, TypeOK, ControlOK
<1>1. ~ OwesReadable(t, f)
  BY DEF OwesReadable, ReadLabels, WriteLabels
<1>2. \A u \in Threads : u # t /\ OwesReadable(u, f) => OwesReadable(u, f)'
  <2>1. CASE UNCHANGED <<pc, call>>
    BY <2>1 DEF OwesReadable
  <2>2. ASSUME NEW l, NEW c, Step(t, l, c)
        PROVE  \A u \in Threads : u # t /\ OwesReadable(u, f) => OwesReadable(u, f)'
    BY <1>0, <2>2, OthersOwe
  <2> QED BY <2>1, <2>2
<1>3. (Needs(f)' => Needs(f)) /\ (Needs(f) /\ Marked(f) => Marked(f)')
  BY <1>0, OtherPlace
<1> QED BY <1>0, <1>1, <1>2, <1>3, ReadKept

(* A poll number that stands for no FIFO is nobody's place. *)
LEMMA NonFifoPlace ==
  ASSUME Inv, NEW f \in Fifos, NEW p \in Positions, p.num \in NonFifoNums
  PROVE  read_poll[f] # p
<1>1. read_poll[f] \in {Null, ReadPos[f]}
  BY DEF Inv, BindOK
<1>2. Null \notin Positions
  BY FifoAssumption
<1> QED BY <1>1, <1>2, PlacesDiffer

LEMMA GroupSignalRead ==
  ASSUME ReadInv, NEW t \in Threads, NEW g \in Pollers, NEW v \in NonFifoNums,
         poll_group_signal(t, g, v), NEW f \in Fifos
  PROVE  Needs(f)' => Marked(f)' \/ \E u \in Threads : OwesReadable(u, f)'
<1> DEFINE p == [group |-> g, num |-> v]
<1>1. p \in Positions
  BY FifoAssumption DEF Positions
<1>2. read_poll[f] # p
  BY <1>1, NonFifoPlace DEF ReadInv
<1>3. /\ group' = [group EXCEPT ![p.group].ready = @ \cup {p.num}]
      /\ pc[t] = "idle" /\ UNCHANGED <<fifo, read_poll>>
  BY DEF poll_group_signal, fifoVars
<1>4. \E l, c : Step(t, l, c)
  BY DEF poll_group_signal
<1> QED BY Zenon, <1>1, <1>2, <1>3, <1>4, OtherPlaceRead

LEMMA UsePolledRead ==
  ASSUME ReadInv, NEW t \in Threads, UsePolled(t), NEW f \in Fifos
  PROVE  Needs(f)' => Marked(f)' \/ \E u \in Threads : OwesReadable(u, f)'
<1>0. pc[t] = "polled"
  BY DEF UsePolled
<1>1. CASE \E g \in Fifos : dequeue(t, g, FALSE)
  BY Zenon, <1>0, <1>1, DequeueRead
<1>2. CASE \E g \in Fifos, m \in Msgs : enqueue(t, g, m, FALSE)
  BY Zenon, <1>0, <1>2, EnqueueRead
<1>3. CASE call[t].poll.num \in NonFifoNums /\ poll_group_unsignal(t)
  <2> DEFINE p == call[t].poll
  <2>1. p \in Positions /\ p.group = t
    BY <1>0 DEF ReadInv, Inv, CallOK, Fits
  <2>2. read_poll[f] # p
    BY <1>3, <2>1, NonFifoPlace DEF ReadInv
  <2>3. /\ group' = [group EXCEPT ![p.group].ready = @ \ {p.num}]
        /\ UNCHANGED <<fifo, read_poll>>
    BY <1>3, <2>1 DEF poll_group_unsignal, fifoVars
  <2>4. \E l, c : Step(t, l, c)
    BY <1>3 DEF poll_group_unsignal
  <2> QED BY ZenonT(30), <1>0, <2>1, <2>2, <2>3, <2>4, OtherPlaceRead
<1> QED BY Zenon, <1>1, <1>2, <1>3 DEF UsePolled

LEMMA OtherFifoPlace ==
  ASSUME Inv, NEW f \in Fifos, NEW g \in Fifos, f # g, ReadPos[g] \in Positions
  PROVE  read_poll[f] # ReadPos[g]
<1>1. read_poll[f] \in {Null, ReadPos[f]}
  BY DEF Inv, BindOK
<1>2. Null \notin Positions
  BY FifoAssumption
<1> QED BY <1>1, <1>2, PlacesDiffer

(* The owner of a group configures it.  Binding clears the mask, so that a *)
(* FIFO just bound needs nothing; enabling leaves its thread at the check  *)
(* of the ring, which it owes.                                             *)
LEMMA ConfigureRead ==
  ASSUME ReadInv, NEW t \in Pollers, Configure(t) \/ Deconfigure(t),
         NEW f \in Fifos
  PROVE  Needs(f)' => Marked(f)' \/ \E u \in Threads : OwesReadable(u, f)'
<1> DEFINE Goal == Needs(f)' => Marked(f)' \/ \E u \in Threads : OwesReadable(u, f)'
<1>0. /\ t \in Threads /\ Inv /\ ControlOK /\ ReadReadiness
      /\ group \in [Pollers -> Groups]
      /\ read_poll \in [Fifos -> Positions \cup {Null}]
      /\ write_poll \in [Fifos -> Positions \cup {Null}]
      /\ \A g \in Fifos : /\ read_poll[g] \in {Null, ReadPos[g]}
                          /\ write_poll[g] \in {Null, WritePos[g]}
  BY DEF ReadInv, Inv, TypeOK, BindOK, ControlOK, Threads
<1>1. ASSUME NEW g \in Fifos, NEW p \in Positions, p = ReadPos[g], pc[t] = "idle",
             Forget(p), read_poll' \in {[read_poll EXCEPT ![g] = ReadPos[g]],
                                        [read_poll EXCEPT ![g] = Null]},
             UNCHANGED <<fifo, pc, call>>
      PROVE  Goal
  <2>1. CASE f = g
    <3>1. read_poll'[f] = p \/ read_poll'[f] = Null
      BY <1>0, <1>1, <2>1
    <3>2. p.num \notin group'[p.group].mask
      <4>1. p.group \in Pollers
        BY DEF Positions
      <4> QED BY <1>0, <1>1, <4>1 DEF Forget, Groups
    <3> QED BY <3>1, <3>2 DEF Needs, Enabled
  <2>2. CASE f # g
    <3>1. read_poll'[f] = read_poll[f]
      BY <1>0, <1>1, <2>2
    <3>2. read_poll[f] # p
      BY <1>0, <1>1, <2>2, OtherFifoPlace
    <3> QED BY ZenonT(30), <1>0, <1>1, <3>1, <3>2, OtherPlaceRead
  <2> QED BY <2>1, <2>2
<1>2. ASSUME NEW g \in Fifos, NEW p \in Positions, p = WritePos[g], pc[t] = "idle",
             \/ Forget(p)
             \/ group' = [group EXCEPT ![p.group].mask = @ \cup {p.num}]
             \/ group' = [group EXCEPT ![p.group].mask = @ \ {p.num}],
             UNCHANGED <<fifo, read_poll>>,
             UNCHANGED <<pc, call>> \/ \E l, c : Step(t, l, c)
      PROVE  Goal
  <2>1. read_poll[f] # p
    <3>1. Null \notin Positions
      BY FifoAssumption
    <3> QED BY <1>0, <1>2, <3>1, PlacesDiffer
  <2> QED BY Zenon, <1>0, <1>2, <2>1, OtherPlaceRead
<1>3. ASSUME NEW g \in Fifos, enable_read_poll(t, g)
      PROVE  Goal
  <2> DEFINE p == read_poll[g]
             c == [NoCall EXCEPT !.op = "enable", !.f = g]
  <2>1. p \in Positions /\ p.group = t /\ p = ReadPos[g] /\ pc[t] = "idle"
    BY <1>0, <1>3 DEF enable_read_poll, enable_poll, OwnerOnly
  <2>2. /\ group' = [group EXCEPT ![p.group].mask = @ \cup {p.num}]
        /\ Step(t, "er_check", c) /\ UNCHANGED <<fifo, read_poll>>
    BY <1>3, <2>1 DEF enable_read_poll, enable_poll, fifoVars
  <2>3. CASE f = g
    <3>1. pc'[t] = "er_check" /\ call'[t] = Locals("er_check", c)
      BY <1>0, <2>2, OthersOwe
    <3>2. call'[t].f = f
      BY <2>3, <3>1 DEF Locals, NoCall
    <3> QED BY <1>0, <3>1, <3>2 DEF OwesReadable, ReadLabels
  <2>4. CASE f # g
    <3>1. read_poll[f] # p
      BY <1>0, <2>1, <2>4, OtherFifoPlace
    <3>2. \E l, d : Step(t, l, d)
      BY <2>2
    <3> QED BY ZenonT(30), <1>0, <2>1, <2>2, <3>1, <3>2, OtherPlaceRead
  <2> QED BY <2>3, <2>4
<1>4. ASSUME NEW p \in Positions, p.num \in NonFifoNums, pc[t] = "idle",
             \/ group' = [group EXCEPT ![p.group].mask = @ \cup {p.num}]
             \/ group' = [group EXCEPT ![p.group].mask = @ \ {p.num}],
             UNCHANGED <<fifo, read_poll, pc, call>>
      PROVE  Goal
  <2>1. read_poll[f] # p
    BY <1>0, <1>4, NonFifoPlace
  <2> QED BY Zenon, <1>0, <1>4, <2>1, OtherPlaceRead
<1>5. ASSUME NEW g \in Fifos, disable_poll(t, read_poll[g])
      PROVE  Goal
  <2> DEFINE p == read_poll[g]
  <2>1. p \in Positions /\ p.group = t /\ p = ReadPos[g] /\ pc[t] = "idle"
    BY <1>0, <1>5 DEF disable_poll, OwnerOnly
  <2>2. /\ group' = [group EXCEPT ![p.group].mask = @ \ {p.num}]
        /\ UNCHANGED <<fifo, read_poll, pc, call>>
    BY <1>5, <2>1 DEF disable_poll, fifoVars
  <2>3. CASE f = g
    <3>1. p.num \notin group'[p.group].mask
      BY <1>0, <2>1, <2>2 DEF Groups, Positions
    <3> QED BY <2>2, <2>3, <3>1 DEF Needs, Enabled
  <2>4. CASE f # g
    <3>1. read_poll[f] # p
      BY <1>0, <2>1, <2>4, OtherFifoPlace
    <3> QED BY ZenonT(30), <1>0, <2>1, <2>2, <3>1, OtherPlaceRead
  <2> QED BY <2>3, <2>4
<1>6. ASSUME NEW g \in Fifos, bind_to_read_poll(t, g) \/ unbind_from_read_poll(t, g)
      PROVE  Goal
  <2>1. ReadPos[g] \in Positions \cup {Null}
    BY FifoAssumption
  <2>2. /\ ReadPos[g] \in Positions /\ pc[t] = "idle" /\ Forget(ReadPos[g])
        /\ UNCHANGED <<fifo, pc, call>>
        /\ read_poll' \in {[read_poll EXCEPT ![g] = ReadPos[g]],
                           [read_poll EXCEPT ![g] = Null]}
    BY Zenon, <1>0, <1>6, <2>1
       DEF bind_to_read_poll, unbind_from_read_poll, OwnerOnly, fifoVars
  <2> QED BY <1>1, <2>2
<1>7. ASSUME NEW g \in Fifos, bind_to_write_poll(t, g) \/ unbind_from_write_poll(t, g)
      PROVE  Goal
  <2>1. WritePos[g] \in Positions \cup {Null}
    BY FifoAssumption
  <2>2. /\ WritePos[g] \in Positions /\ pc[t] = "idle" /\ Forget(WritePos[g])
        /\ UNCHANGED <<fifo, read_poll, pc, call>>
    BY <1>0, <1>7, <2>1
       DEF bind_to_write_poll, unbind_from_write_poll, OwnerOnly, fifoVars
  <2> QED BY Zenon, <1>2, <2>2
<1>8. ASSUME NEW g \in Fifos, enable_write_poll(t, g) \/ disable_poll(t, write_poll[g])
      PROVE  Goal
  <2> DEFINE p == write_poll[g]
  <2>1. p \in Positions /\ p.group = t /\ p = WritePos[g] /\ pc[t] = "idle"
    BY <1>0, <1>8 DEF enable_write_poll, enable_poll, disable_poll, OwnerOnly
  <2>2. /\ \/ group' = [group EXCEPT ![p.group].mask = @ \cup {p.num}]
           \/ group' = [group EXCEPT ![p.group].mask = @ \ {p.num}]
        /\ UNCHANGED <<fifo, read_poll>>
    BY <1>8, <2>1 DEF enable_write_poll, enable_poll, disable_poll, fifoVars
  <2>3. UNCHANGED <<pc, call>> \/ \E l, c : Step(t, l, c)
    BY <1>8 DEF enable_write_poll, enable_poll, disable_poll
  <2> QED BY Zenon, <1>2, <2>1, <2>2, <2>3
<1>9. ASSUME NEW v \in NonFifoNums,
             enable_nonfifo_poll(t, v) \/ disable_nonfifo_poll(t, v)
      PROVE  Goal
  <2> DEFINE p == [group |-> t, num |-> v]
  <2>1. p \in Positions
    BY FifoAssumption DEF Positions
  <2>2. /\ \/ group' = [group EXCEPT ![p.group].mask = @ \cup {p.num}]
           \/ group' = [group EXCEPT ![p.group].mask = @ \ {p.num}]
        /\ pc[t] = "idle" /\ UNCHANGED <<fifo, read_poll, pc, call>>
    BY <1>9 DEF enable_nonfifo_poll, disable_nonfifo_poll, disable_poll,
                OwnerOnly, fifoVars
  <2> QED BY Zenon, <1>4, <2>1, <2>2
<1> QED
  BY ZenonT(30), <1>3, <1>5, <1>6, <1>7, <1>8, <1>9 DEF Configure, Deconfigure

(* The remainder of a number below twice the modulus. *)
LEMMA SmallMod ==
  ASSUME NEW N \in Nat \ {0}, NEW x \in 0 .. 2 * N - 1
  PROVE  x % N = IF x < N THEN x ELSE x - N
<1>1. CASE x < N
  BY <1>1, SMTT(20)
<1>2. CASE ~ (x < N)
  <2>1. x % N = (x - N) % N
    BY <1>2, SMTT(20)
  <2>2. x - N \in 0 .. N - 1
    BY <1>2
  <2> QED BY <1>2, <2>1, <2>2, SMTT(20)
<1> QED BY <1>1, <1>2

LEMMA NumZero ==
  ASSUME NEW r \in Rings, num_in_queue(r) = 0
  PROVE  is_empty(r)
<1> DEFINE x == r.producer - r.consumer + NumEnts
<1>0. /\ NumEnts \in Nat \ {0} /\ r.producer \in 0 .. NumEnts - 1
      /\ r.consumer \in 0 .. NumEnts - 1
  BY RingAssumption DEF Rings, Slots
<1>1. x \in 0 .. 2 * NumEnts - 1
  BY <1>0
<1>2. x % NumEnts = IF x < NumEnts THEN x ELSE x - NumEnts
  BY <1>0, <1>1, SmallMod
<1>3. CASE r.producer = r.consumer /\ r.queue_full
  BY <1>0, <1>3 DEF num_in_queue
<1>4. CASE ~ (r.producer = r.consumer /\ r.queue_full)
  <2>1. x % NumEnts = 0
    BY <1>4 DEF num_in_queue, Distance
  <2>2. (IF x < NumEnts THEN x ELSE x - NumEnts) = 0
    BY <1>2, <2>1, Zenon
  <2>3. r.producer = r.consumer
    BY <1>0, <2>2
  <2> QED BY <1>4, <2>3 DEF is_empty
<1> QED BY <1>3, <1>4

LEMMA EnableCheckRead ==
  ASSUME ReadInv, NEW t \in Threads, enable_check(t), NEW f \in Fifos
  PROVE  Needs(f)' => Marked(f)' \/ \E u \in Threads : OwesReadable(u, f)'
<1> DEFINE c == call[t]
<1>0. c \in Calls /\ Fits(t, pc[t], c) /\ fifo \in [Fifos -> Rings]
  BY DEF ReadInv, Inv, TypeOK, CallOK
<1>1. UNCHANGED <<fifo, read_poll, group>>
  BY DEF enable_check, fifoVars
<1>2. CASE /\ pc[t] = "er_check"
           /\ Step(t, IF num_in_queue(fifo[c.f]) # 0 THEN "mr_signal" ELSE "idle", c)
  <2> DEFINE l == IF num_in_queue(fifo[c.f]) # 0 THEN "mr_signal" ELSE "idle"
  <2>1. OwesReadable(t, f) /\ Needs(f) => Owing(l, Locals(l, c), f)
    <3> SUFFICES ASSUME c.f = f, Needs(f) PROVE Owing(l, Locals(l, c), f)
      BY DEF OwesReadable
    <3>1. num_in_queue(fifo[f]) # 0
      BY <1>0, NumZero DEF Needs
    <3> QED BY <3>1 DEF Owing, Locals, ReadLabels
  <2> QED BY ZenonT(30), <1>1, <1>2, <2>1, QuietRead
<1>3. CASE /\ pc[t] = "ew_check"
           /\ Step(t, IF avail_in_queue(fifo[c.f]) # 0 THEN "mw_signal" ELSE "idle", c)
  <2> DEFINE l == IF avail_in_queue(fifo[c.f]) # 0 THEN "mw_signal" ELSE "idle"
  <2>1. ~ OwesReadable(t, f)
    BY ZenonT(30), <1>3, <1>0 DEF OwesReadable, ReadLabels, WriteLabels, Fits
  <2> QED BY ZenonT(30), <1>1, <1>3, <2>1, QuietRead
<1> QED BY <1>2, <1>3 DEF enable_check

LEMMA SpuriousRead ==
  ASSUME ReadInv, NEW t \in Threads, SpuriousWakeup(t), NEW f \in Fifos
  PROVE  Needs(f)' => Marked(f)' \/ \E u \in Threads : OwesReadable(u, f)'
<1>0. ControlOK /\ ReadReadiness
  BY DEF ReadInv, Inv, TypeOK, ControlOK
<1>1. /\ \A u \in Threads : u # t => pc'[u] = pc[u]
      /\ UNCHANGED <<call, fifo, read_poll, group>>
  BY <1>0 DEF SpuriousWakeup, ControlOK
<1>2. ~ OwesReadable(t, f)
  BY DEF SpuriousWakeup, OwesReadable, ReadLabels, WriteLabels
<1>3. \A u \in Threads : u # t /\ OwesReadable(u, f) => OwesReadable(u, f)'
  BY <1>1 DEF OwesReadable
<1>4. (Needs(f)' <=> Needs(f)) /\ (Marked(f)' <=> Marked(f))
  BY <1>1 DEF Needs, Marked, Enabled, is_empty
<1> QED BY <1>0, <1>2, <1>3, <1>4, ReadKept

LEMMA CallRead ==
  ASSUME ReadInv, NEW t \in Threads, Call(t), NEW f \in Fifos
  PROVE  Needs(f)' => Marked(f)' \/ \E u \in Threads : OwesReadable(u, f)'
<1>0. WaitModes \subseteq BOOLEAN /\ pc[t] = "idle"
  BY FifoAssumption DEF Call
<1>1. CASE \E g \in Fifos, m \in Msgs, w \in WaitModes : enqueue(t, g, m, w)
  BY <1>0, <1>1, EnqueueRead
<1>2. CASE \E g \in Fifos, w \in WaitModes : dequeue(t, g, w)
  BY <1>0, <1>2, DequeueRead
<1>3. CASE \E g \in Pollers, v \in NonFifoNums : poll_group_signal(t, g, v)
  BY <1>3, GroupSignalRead
<1>4. CASE t \in Pollers /\ \E w \in WaitModes : poll(t, w)
  BY <1>0, <1>4, PollRead
<1> QED BY <1>1, <1>2, <1>3, <1>4 DEF Call

LEMMA RunRead ==
  ASSUME ReadInv, NEW t \in Threads, Run(t), NEW f \in Fifos
  PROVE  Needs(f)' => Marked(f)' \/ \E u \in Threads : OwesReadable(u, f)'
<1>1. CASE Readiness(t)
  BY <1>1, ReadableRead, WritableRead, NonReadyRead DEF Readiness
<1>2. CASE enqueue_woken(t) \/ enqueue_check(t)
  BY <1>2, EnqueueRestRead
<1>3. CASE dequeue_woken(t) \/ dequeue_signal(t)
  BY <1>3, DequeueRestRead
<1>4. CASE poll_woken(t)
  <2>1. t \in Pollers
    BY <1>4 DEF poll_woken, ReadInv, Inv, CallOK, Fits
  <2> QED BY ZenonT(30), <1>4, <2>1, PollRead
<1>5. CASE poll_group_wakeup(t)
  <2> DEFINE W == PollWaiters(call[t].poll.group)
  <2>1. pc[t] = "pg_wakeup" /\ UNCHANGED <<fifo, read_poll, group>>
    BY <1>5 DEF poll_group_wakeup, fifoVars
  <2>2. /\ W \in SUBSET Threads /\ t \notin W
        /\ \A w \in W : pc[w] \in {"enq_wait", "deq_wait", "poll_wait"}
    BY <2>1 DEF PollWaiters, Threads
  <2>3. StepSignal(t, "idle", NoCall, W, "poll_woken")
    BY <1>5 DEF poll_group_wakeup
  <2> QED BY ZenonT(30), <2>1, <2>2, <2>3, SignalRead
<1>6. CASE enable_check(t)
  BY <1>6, EnableCheckRead
<1>7. CASE UsePolled(t)
  BY <1>7, UsePolledRead
<1> QED BY <1>1, <1>2, <1>3, <1>4, <1>5, <1>6, <1>7 DEF Run

LEMMA NextRead == ReadInv /\ [Next]_vars => ReadInv'
<1> SUFFICES ASSUME ReadInv, [Next]_vars PROVE ReadInv'
  OBVIOUS
<1>1. Inv'
  BY NextInv DEF ReadInv
<1>2. CASE UNCHANGED vars
  <2>1. ReadReadiness'
    BY <1>2 DEF vars, ReadInv, ReadReadiness, OwesReadable, Enabled, is_empty
  <2> QED BY <1>1, <2>1 DEF ReadInv
<1>3. ASSUME NEW t \in Threads, NEW f \in Fifos,
             \/ Call(t) \/ Configure(t) \/ Deconfigure(t)
             \/ Run(t) \/ SpuriousWakeup(t)
      PROVE  Needs(f)' => Marked(f)' \/ \E u \in Threads : OwesReadable(u, f)'
  BY ZenonT(30), <1>3, CallRead, ConfigureRead, RunRead, SpuriousRead DEF Configure, Deconfigure
<1>4. CASE Next
  <2>1. \A f \in Fifos :
          Needs(f)' => Marked(f)' \/ \E u \in Threads : OwesReadable(u, f)'
    BY <1>3, <1>4 DEF Next
  <2>2. ReadReadiness'
    BY Zenon, <2>1 DEF ReadReadiness, Needs, Marked
  <2> QED BY <1>1, <2>2 DEF ReadInv
<1> QED BY <1>2, <1>4

(* A FIFO that holds a message and is enabled for read polling has its     *)
(* ready bit set, or a thread inside enqueue, dequeue or enable_read_poll  *)
(* is about to set it, for any number of threads: clearing the bit outside *)
(* the FIFO mutex loses no message, because dequeue looks again.           *)
THEOREM ReadReady == Spec => []ReadReadiness
<1>1. Init => ReadInv
  <2>1. Init => ReadReadiness
    BY DEF Init, ReadReadiness, Enabled
  <2> QED BY <2>1, InitInv DEF ReadInv
<1>2. ReadInv => ReadReadiness
  BY DEF ReadInv
<1> QED BY <1>1, <1>2, NextRead, PTL DEF Spec
=============================================================================
