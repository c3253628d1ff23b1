-------------------------------- MODULE Fifo --------------------------------
(***************************************************************************)
(* Software FIFOs and poll groups (include/xdp2/fifo.h) used by            *)
(* concurrent threads.  A critical section under the FIFO mutex or under   *)
(* the poll group mutex is one step, and so is a signal of a condition     *)
(* variable, which the code sends without a mutex; between two of these    *)
(* any other thread may run.                                               *)
(*                                                                         *)
(* A poll group belongs to the thread that polls it (the header: a poll    *)
(* group is NOT thread safe, its caller is single threaded), so groups     *)
(* are named by their thread.  A thread whose poll returned a FIFO then    *)
(* does a non-blocking read or write of it, as that header comment says.   *)
(***************************************************************************)
EXTENDS FifoRing

CONSTANTS
  Fifos,
  Producers,     \* threads that enqueue
  Consumers,     \* threads that dequeue
  Pollers,       \* threads that own and poll a poll group
  Signallers,    \* threads that signal non-FIFO poll numbers
  WaitModes,     \* values of the wait argument used by the callers
  MaxFifos,      \* XDP2_POLL_GROUP_MAX_FIFOS, poll numbers of a group
  ReadPos,       \* where a FIFO is bound for reading, or Null
  WritePos,      \* where a FIFO is bound for writing, or Null
  NonFifoNums,   \* poll numbers that stand for something else
  NoPollGroups,  \* groups with fifo_no_poll set
  Reconfigure,   \* whether FIFOs are disabled and unbound again
  Null

Threads == Producers \cup Consumers \cup Pollers \cup Signallers

PollNums == 0 .. MaxFifos - 1

Positions == [group : Pollers, num : PollNums]

ASSUME FifoAssumption ==
  /\ MaxFifos \in Nat \ {0}
  /\ ReadPos \in [Fifos -> Positions \cup {Null}]
  /\ WritePos \in [Fifos -> Positions \cup {Null}]
  /\ NonFifoNums \subseteq PollNums
  /\ NoPollGroups \subseteq Pollers
  /\ WaitModes \subseteq BOOLEAN
  /\ Reconfigure \in BOOLEAN
  /\ Null \notin Positions \cup Fifos \cup Msgs \cup {NoMsg}
  /\ \A f, g \in Fifos :
       /\ ReadPos[f] # Null => ReadPos[f] # WritePos[g]
       /\ ReadPos[f] # Null /\ ReadPos[f] = ReadPos[g] => f = g
       /\ WritePos[f] # Null /\ WritePos[f] = WritePos[g] => f = g
  /\ \A f \in Fifos : /\ ReadPos[f] # Null => ReadPos[f].num \notin NonFifoNums
                      /\ WritePos[f] # Null => WritePos[f].num \notin NonFifoNums

VARIABLES
  fifo,                 \* fifo[f]: the ring of FIFO f
  out,                  \* out[f]: the message last dequeued from f
  read_poll,            \* read_poll[f]: read_poll and read_poll_num
  write_poll,           \* write_poll[f]: write_poll and write_poll_num
  group,                \* group[g]: the poll group of thread g
  pc,                   \* pc[t]: where thread t is
  call                  \* call[t]: the arguments and locals of its call

fifoVars == <<fifo, out>>
vars == <<fifo, out, read_poll, write_poll, group, pc, call>>

NoCall == [op |-> "none", f |-> Null, msg |-> Null, was_empty |-> FALSE,
           non_readable |-> FALSE, signal_producer |-> FALSE, poll |-> Null]

Init ==
  /\ fifo = [f \in Fifos |-> InitRing]
  /\ out = [f \in Fifos |-> NoMsg]
  /\ read_poll = [f \in Fifos |-> Null]
  /\ write_poll = [f \in Fifos |-> Null]
  /\ group = [g \in Pollers |-> [ready |-> {}, mask |-> {}, start_pos |-> 0]]
  /\ pc = [t \in Threads |-> "idle"]
  /\ call = [t \in Threads |-> NoCall]

-----------------------------------------------------------------------------
(* Control of a thread: it goes to label l with locals c.  At "idle" it    *)
(* has returned from its call and may make another.                        *)
Locals(l, c) == IF l = "idle" THEN NoCall ELSE c

Step(t, l, c) ==
  /\ pc' = [pc EXCEPT ![t] = l]
  /\ call' = [call EXCEPT ![t] = Locals(l, c)]

(* XDP2_LOCKS_COND_SIGNAL: one of the threads W that wait on the condition *)
(* variable, if there is one, goes on to compete for the mutex at label l2.*)
StepSignal(t, l, c, W, l2) ==
  /\ \/ /\ W = {}
        /\ pc' = [pc EXCEPT ![t] = l]
     \/ \E w \in W : pc' = [pc EXCEPT ![t] = l, ![w] = l2]
  /\ call' = [call EXCEPT ![t] = Locals(l, c)]

ProducerWaiters(f) == {t \in Threads : pc[t] = "enq_wait" /\ call[t].f = f}
ConsumerWaiters(f) == {t \in Threads : pc[t] = "deq_wait" /\ call[t].f = f}
PollWaiters(g) == {t \in Pollers : t = g /\ pc[t] = "poll_wait"}

(* POSIX lets a condition wait return without a signal; with the atomics   *)
(* flavour of locks.h a wait is an unlock, a sleep and a lock, so that is  *)
(* how every wait ends.                                                    *)
SpuriousWakeup(t) ==
  /\ pc[t] \in {"enq_wait", "deq_wait", "poll_wait"}
  /\ pc' = [pc EXCEPT ![t] = CASE pc[t] = "enq_wait" -> "enq_woken"
                                [] pc[t] = "deq_wait" -> "deq_woken"
                                [] OTHER -> "poll_woken"]
  /\ UNCHANGED <<fifo, out, read_poll, write_poll, group, call>>

-----------------------------------------------------------------------------
(* Where a thread goes when make_writable and make_readable return to the  *)
(* function that called them.                                              *)
MAfterWritable_OneSignal(c) ==
  CASE c.op = "enqueue" -> IF c.was_empty THEN "mr_signal" ELSE "idle"
    [] c.op = "dequeue" -> IF c.non_readable THEN "mnr_fifo" ELSE "idle"
    [] OTHER -> "idle"

AfterWritable(c) ==
  CASE c.op = "enqueue" -> IF c.was_empty THEN "mr_signal" ELSE "idle"
    [] c.op = "dequeue" -> IF c.non_readable THEN "mnr_fifo" ELSE "deq_signal"
    [] OTHER -> "idle"

AfterReadable(c) ==
  IF c.op = "dequeue" /\ c.signal_producer THEN "deq_signal" ELSE "idle"

Mmake_readable_NoWakeup(t) ==
  LET c == call[t]
  IN
  \/ /\ pc[t] = "mr_signal"
     /\ StepSignal(t, "mr_fifo", c, ConsumerWaiters(c.f), "deq_woken")
     /\ UNCHANGED group
  \/ /\ pc[t] = "mr_fifo"
     /\ Step(t, IF read_poll[c.f] = Null THEN AfterReadable(c) ELSE "mr_poll",
             [c EXCEPT !.poll = read_poll[c.f]])
     /\ UNCHANGED group
  \/ /\ pc[t] = "mr_poll"
     /\ group' = [group EXCEPT ![c.poll.group].ready = @ \cup {c.poll.num}]
     /\ Step(t, AfterReadable(c), c)

(* xdp2_fifo_make_readable: signal the consumer, read the binding under    *)
(* the FIFO mutex, set the ready bit under the poll group mutex if the     *)
(* FIFO is enabled, and signal the poll group.                             *)
make_readable(t) ==
  LET c == call[t]
  IN
  \/ /\ pc[t] = "mr_signal"
     /\ StepSignal(t, "mr_fifo", c, ConsumerWaiters(c.f), "deq_woken")
     /\ UNCHANGED group
  \/ /\ pc[t] = "mr_fifo"
     /\ Step(t, IF read_poll[c.f] = Null THEN AfterReadable(c) ELSE "mr_poll",
             [c EXCEPT !.poll = read_poll[c.f]])
     /\ UNCHANGED group
  \/ /\ pc[t] = "mr_poll"
     /\ IF c.poll.num \in group[c.poll.group].mask
          THEN /\ group' = [group EXCEPT ![c.poll.group].ready =
                                           @ \cup {c.poll.num}]
               /\ Step(t, "mr_wakeup", c)
          ELSE Step(t, AfterReadable(c), c) /\ UNCHANGED group
  \/ /\ pc[t] = "mr_wakeup"
     /\ StepSignal(t, AfterReadable(c), c, PollWaiters(c.poll.group),
                   "poll_woken")
     /\ UNCHANGED group

(* xdp2_fifo_mark_non_readable, and the second look at the ring under the  *)
(* FIFO mutex of xdp2_fifo_make_non_readable_after_dequeue.                *)
mark_non_readable(t) ==
  LET c == call[t]
  IN
  \/ /\ pc[t] = "mnr_fifo"
     /\ Step(t, IF read_poll[c.f] = Null THEN "mnr_check" ELSE "mnr_poll",
             [c EXCEPT !.poll = read_poll[c.f]])
     /\ UNCHANGED group
  \/ /\ pc[t] = "mnr_poll"
     /\ group' = [group EXCEPT ![c.poll.group].ready = @ \ {c.poll.num}]
     /\ Step(t, "mnr_check", c)

Mmake_non_readable_NoSecondLook(t) ==
  \/ mark_non_readable(t)
  \/ /\ pc[t] = "mnr_check"
     /\ Step(t, AfterReadable(call[t]), call[t])
     /\ UNCHANGED group

make_non_readable_after_dequeue(t) ==
  LET c == call[t]
  IN
  \/ mark_non_readable(t)
  \/ /\ pc[t] = "mnr_check"
     /\ Step(t, IF is_empty(fifo[c.f]) THEN AfterReadable(c) ELSE "mr_signal",
             c)
     /\ UNCHANGED group

(* xdp2_fifo_make_writable, the mirror image of make_readable. *)
make_writable(t) ==
  LET c == call[t]
  IN
  \/ /\ pc[t] = "mw_signal"
     /\ StepSignal(t, "mw_fifo", c, ProducerWaiters(c.f), "enq_woken")
     /\ UNCHANGED group
  \/ /\ pc[t] = "mw_fifo"
     /\ Step(t, IF write_poll[c.f] = Null THEN AfterWritable(c) ELSE "mw_poll",
             [c EXCEPT !.poll = write_poll[c.f]])
     /\ UNCHANGED group
  \/ /\ pc[t] = "mw_poll"
     /\ IF c.poll.num \in group[c.poll.group].mask
          THEN /\ group' = [group EXCEPT ![c.poll.group].ready =
                                           @ \cup {c.poll.num}]
               /\ Step(t, "mw_wakeup", c)
          ELSE Step(t, AfterWritable(c), c) /\ UNCHANGED group
  \/ /\ pc[t] = "mw_wakeup"
     /\ StepSignal(t, AfterWritable(c), c, PollWaiters(c.poll.group),
                   "poll_woken")
     /\ UNCHANGED group

mark_non_writable(t) ==
  LET c == call[t]
  IN
  \/ /\ pc[t] = "mnw_fifo"
     /\ Step(t, IF write_poll[c.f] = Null THEN "enq_check" ELSE "mnw_poll",
             [c EXCEPT !.poll = write_poll[c.f]])
     /\ UNCHANGED group
  \/ /\ pc[t] = "mnw_poll"
     /\ group' = [group EXCEPT ![c.poll.group].ready = @ \ {c.poll.num}]
     /\ Step(t, "enq_check", c)

(* The steps that happen after a call of enqueue, dequeue or enable has    *)
(* left its first critical section.                                        *)
Readiness(t) ==
  /\ \/ make_readable(t)
     \/ make_non_readable_after_dequeue(t)
     \/ make_writable(t)
     \/ mark_non_writable(t)
  /\ UNCHANGED <<fifo, out, read_poll, write_poll>>

-----------------------------------------------------------------------------
MEnqueueWork_EmptyAfter(t, f, m) ==
  LET r == Push(fifo[f], m)
      was_empty == r.producer = r.consumer
  IN /\ fifo' = [fifo EXCEPT ![f] = r]
     /\ Step(t, IF r.producer = r.consumer THEN "mnw_fifo"
                ELSE IF was_empty THEN "mr_signal" ELSE "idle",
             [NoCall EXCEPT !.op = "enqueue", !.f = f,
                            !.was_empty = was_empty])
     /\ UNCHANGED out

(* ___xdp2_fifo_sw_enqueue, from "Do the work of queuing" to the unlock.   *)
EnqueueWork(t, f, m) ==
  LET r == Push(fifo[f], m)
      was_empty == fifo[f].producer = fifo[f].consumer
  IN /\ fifo' = [fifo EXCEPT ![f] = r]
     /\ Step(t, IF r.producer = r.consumer THEN "mnw_fifo"
                ELSE IF was_empty THEN "mr_signal" ELSE "idle",
             [NoCall EXCEPT !.op = "enqueue", !.f = f,
                            !.was_empty = was_empty])
     /\ UNCHANGED out

(* The call: take the FIFO mutex and look whether the ring is full. *)
enqueue(t, f, m, wait) ==
  /\ \/ /\ ~ is_full(fifo[f])
        /\ EnqueueWork(t, f, m)
     \/ /\ is_full(fifo[f])
        /\ wait
        /\ Step(t, "enq_wait",
                [NoCall EXCEPT !.op = "enqueue", !.f = f, !.msg = m])
        /\ UNCHANGED fifoVars
     \/ /\ is_full(fifo[f])
        /\ ~ wait
        /\ Step(t, "idle", NoCall)
        /\ UNCHANGED fifoVars
  /\ UNCHANGED <<read_poll, write_poll, group>>

(* XDP2_LOCKS_COND_WAIT returned: the mutex is held again. *)
enqueue_woken(t) ==
  LET c == call[t]
  IN /\ pc[t] = "enq_woken"
     /\ \/ /\ is_full(fifo[c.f])
           /\ Step(t, "enq_wait", c)
           /\ UNCHANGED fifoVars
        \/ /\ ~ is_full(fifo[c.f])
           /\ EnqueueWork(t, c.f, c.msg)
     /\ UNCHANGED <<read_poll, write_poll, group>>

Menqueue_check_None(t) ==
  /\ pc[t] = "enq_check"
  /\ Step(t, AfterWritable(call[t]), call[t])
  /\ UNCHANGED <<fifoVars, read_poll, write_poll, group>>

(* The queue became full: after mark_non_writable a second look at it. *)
enqueue_check(t) ==
  LET c == call[t]
  IN /\ pc[t] = "enq_check"
     /\ Step(t, IF num_in_queue(fifo[c.f]) < LowWaterMark THEN "mw_signal"
                ELSE AfterWritable(c), c)
     /\ UNCHANGED <<fifoVars, read_poll, write_poll, group>>

-----------------------------------------------------------------------------
(* Mutant: queue_full is read after it was cleared, so that no producer is *)
(* ever found to be unblocked.                                             *)
MDequeueWork_NoSignal(t, f) ==
  LET r == Pop(fifo[f])
      non_readable == r.producer = r.consumer
  IN /\ fifo' = [fifo EXCEPT ![f] = r]
     /\ out' = [out EXCEPT ![f] = fifo[f].queue[fifo[f].consumer]]
     /\ Step(t, IF non_readable THEN "mnr_fifo" ELSE "idle",
             [NoCall EXCEPT !.op = "dequeue", !.f = f,
                            !.non_readable = non_readable])

(* ___xdp2_fifo_sw_dequeue, from "Have a message to dequeue" to the unlock.*)
DequeueWork(t, f) ==
  LET r == Pop(fifo[f])
      non_readable == r.producer = r.consumer
      unblocked == fifo[f].queue_full /\ ~ r.queue_full
  IN /\ fifo' = [fifo EXCEPT ![f] = r]
     /\ out' = [out EXCEPT ![f] = fifo[f].queue[fifo[f].consumer]]
     /\ Step(t, IF unblocked THEN "mw_signal"
                ELSE IF non_readable THEN "mnr_fifo" ELSE "idle",
             [NoCall EXCEPT !.op = "dequeue", !.f = f,
                            !.non_readable = non_readable,
                            !.signal_producer = unblocked])

dequeue(t, f, wait) ==
  /\ \/ /\ ~ is_empty(fifo[f])
        /\ DequeueWork(t, f)
     \/ /\ is_empty(fifo[f])
        /\ Step(t, IF wait THEN "deq_wait" ELSE "mnr_fifo",
                [NoCall EXCEPT !.op = "dequeue", !.f = f])
        /\ UNCHANGED fifoVars
  /\ UNCHANGED <<read_poll, write_poll, group>>

dequeue_woken(t) ==
  LET c == call[t]
  IN /\ pc[t] = "deq_woken"
     /\ \/ /\ is_empty(fifo[c.f])
           /\ Step(t, "deq_wait", c)
           /\ UNCHANGED fifoVars
        \/ /\ ~ is_empty(fifo[c.f])
           /\ DequeueWork(t, c.f)
     /\ UNCHANGED <<read_poll, write_poll, group>>

(* The second signal of the producer, the last thing dequeue does. *)
dequeue_signal(t) ==
  /\ pc[t] = "deq_signal"
  /\ StepSignal(t, "idle", NoCall, ProducerWaiters(call[t].f), "enq_woken")
  /\ UNCHANGED <<fifoVars, read_poll, write_poll, group>>

-----------------------------------------------------------------------------
Smallest(S) == CHOOSE v \in S : \A w \in S : v <= w

Mfind_roll_FromZero(S, pos) == IF S # {} THEN Smallest(S) ELSE MaxFifos

(* xdp2_bitmap64_find_roll: the first bit at or after pos, else the first  *)
(* bit, else MaxFifos.                                                     *)
find_roll(S, pos) ==
  LET ahead == {v \in S : v >= pos}
  IN IF ahead # {} THEN Smallest(ahead)
     ELSE IF S # {} THEN Smallest(S) ELSE MaxFifos

(* What a poll of group g finds: with fifo_no_poll every FIFO of the mask  *)
(* is returned, ready or not.                                              *)
Found(g) ==
  find_roll(IF g \in NoPollGroups THEN group[g].mask
            ELSE group[g].ready \cap group[g].mask, group[g].start_pos)

Polled(t, v) ==
  Step(t, "polled", [NoCall EXCEPT !.poll = [group |-> t, num |-> v]])

(* __xdp2_fifo_poll.  start_pos moves past the number found, except when   *)
(* the poll had to wait for it.                                            *)
poll(t, wait) ==
  LET v == Found(t)
  IN /\ \/ /\ v < MaxFifos
           /\ group' = [group EXCEPT ![t].start_pos = (v + 1) % MaxFifos]
           /\ Polled(t, v)
        \/ /\ v >= MaxFifos
           /\ Step(t, IF wait /\ t \notin NoPollGroups THEN "poll_wait"
                      ELSE "idle", NoCall)
           /\ UNCHANGED group
     /\ UNCHANGED <<fifoVars, read_poll, write_poll>>

poll_woken(t) ==
  LET v == Found(t)
  IN /\ pc[t] = "poll_woken"
     /\ IF v < MaxFifos THEN Polled(t, v) ELSE Step(t, "poll_wait", NoCall)
     /\ UNCHANGED <<fifoVars, read_poll, write_poll, group>>

(* __xdp2_poll_group_signal and __xdp2_poll_group_unsignal, for poll       *)
(* numbers that are not FIFOs.                                             *)
poll_group_signal(t, g, v) ==
  /\ pc[t] = "idle"
  /\ v \notin group[g].ready
  /\ group' = [group EXCEPT ![g].ready = @ \cup {v}]
  /\ Step(t, "pg_wakeup",
          [NoCall EXCEPT !.poll = [group |-> g, num |-> v]])
  /\ UNCHANGED <<fifoVars, read_poll, write_poll>>

poll_group_wakeup(t) ==
  /\ pc[t] = "pg_wakeup"
  /\ StepSignal(t, "idle", NoCall, PollWaiters(call[t].poll.group),
                "poll_woken")
  /\ UNCHANGED <<fifoVars, read_poll, write_poll, group>>

poll_group_unsignal(t) ==
  /\ group' = [group EXCEPT ![t].ready = @ \ {call[t].poll.num}]
  /\ Step(t, "idle", NoCall)
  /\ UNCHANGED <<fifoVars, read_poll, write_poll>>

(* What the polling thread does with the number that poll returned: a      *)
(* non-blocking read or write of the FIFO.                                 *)
UsePolled(t) ==
  /\ pc[t] = "polled"
  /\ \/ \E f \in Fifos : read_poll[f] = call[t].poll /\ dequeue(t, f, FALSE)
     \/ \E f \in Fifos, m \in Msgs :
          write_poll[f] = call[t].poll /\ enqueue(t, f, m, FALSE)
     \/ call[t].poll.num \in NonFifoNums /\ poll_group_unsignal(t)

-----------------------------------------------------------------------------
(* Binding and enabling, by the thread that owns the group.  Both mutexes  *)
(* are held while a FIFO is bound or unbound.                              *)
OwnerOnly(t, p) == pc[t] = "idle" /\ p # Null /\ p.group = t

Forget(p) ==
  group' = [group EXCEPT ![p.group].mask = @ \ {p.num},
                         ![p.group].ready = @ \ {p.num}]

bind_to_read_poll(t, f) ==
  /\ OwnerOnly(t, ReadPos[f])
  /\ read_poll[f] = Null
  /\ read_poll' = [read_poll EXCEPT ![f] = ReadPos[f]]
  /\ Forget(ReadPos[f])
  /\ UNCHANGED <<fifoVars, write_poll, pc, call>>

bind_to_write_poll(t, f) ==
  /\ OwnerOnly(t, WritePos[f])
  /\ write_poll[f] = Null
  /\ write_poll' = [write_poll EXCEPT ![f] = WritePos[f]]
  /\ Forget(WritePos[f])
  /\ UNCHANGED <<fifoVars, read_poll, pc, call>>

unbind_from_read_poll(t, f) ==
  /\ OwnerOnly(t, read_poll[f])
  /\ read_poll' = [read_poll EXCEPT ![f] = Null]
  /\ Forget(read_poll[f])
  /\ UNCHANGED <<fifoVars, write_poll, pc, call>>

unbind_from_write_poll(t, f) ==
  /\ OwnerOnly(t, write_poll[f])
  /\ write_poll' = [write_poll EXCEPT ![f] = Null]
  /\ Forget(write_poll[f])
  /\ UNCHANGED <<fifoVars, read_poll, pc, call>>

(* xdp2_fifo_enable_read_poll and xdp2_fifo_enable_write_poll: set the     *)
(* mask under the poll group mutex, then look at the ring under the FIFO   *)
(* mutex and announce what it has.                                         *)
enable_poll(t, f, p, l) ==
  /\ OwnerOnly(t, p)
  /\ group' = [group EXCEPT ![t].mask = @ \cup {p.num}]
  /\ Step(t, l, [NoCall EXCEPT !.op = "enable", !.f = f])
  /\ UNCHANGED <<fifoVars, read_poll, write_poll>>

enable_read_poll(t, f) == enable_poll(t, f, read_poll[f], "er_check")

enable_write_poll(t, f) == enable_poll(t, f, write_poll[f], "ew_check")

enable_check(t) ==
  LET c == call[t]
  IN /\ \/ /\ pc[t] = "er_check"
           /\ Step(t, IF num_in_queue(fifo[c.f]) # 0 THEN "mr_signal"
                      ELSE "idle", c)
        \/ /\ pc[t] = "ew_check"
           /\ Step(t, IF avail_in_queue(fifo[c.f]) # 0 THEN "mw_signal"
                      ELSE "idle", c)
     /\ UNCHANGED <<fifoVars, read_poll, write_poll, group>>

(* xdp2_fifo_disable_read_poll, xdp2_fifo_disable_write_poll: only the     *)
(* mask changes, a ready bit stays.                                        *)
disable_poll(t, p) ==
  /\ OwnerOnly(t, p)
  /\ group' = [group EXCEPT ![t].mask = @ \ {p.num}]
  /\ UNCHANGED <<fifoVars, read_poll, write_poll, pc, call>>

enable_nonfifo_poll(t, v) ==
  /\ pc[t] = "idle"
  /\ group' = [group EXCEPT ![t].mask = @ \cup {v}]
  /\ UNCHANGED <<fifoVars, read_poll, write_poll, pc, call>>

disable_nonfifo_poll(t, v) == disable_poll(t, [group |-> t, num |-> v])

-----------------------------------------------------------------------------
(* The calls a thread makes when it is idle. *)
Call(t) ==
  /\ pc[t] = "idle"
  /\ \/ /\ t \in Producers
        /\ \E f \in Fifos, m \in Msgs, w \in WaitModes : enqueue(t, f, m, w)
     \/ /\ t \in Consumers
        /\ \E f \in Fifos, w \in WaitModes : dequeue(t, f, w)
     \/ /\ t \in Signallers
        /\ \E g \in Pollers, v \in NonFifoNums : poll_group_signal(t, g, v)
     \/ /\ t \in Pollers
        /\ \E w \in WaitModes : poll(t, w)

(* The owner of a group sets it up; it does not enable what is enabled.    *)
Enabled(p) == p # Null /\ p.num \in group[p.group].mask

Configure(t) ==
  /\ t \in Pollers
  /\ \/ \E f \in Fifos :
          \/ bind_to_read_poll(t, f)
          \/ bind_to_write_poll(t, f)
          \/ ~ Enabled(read_poll[f]) /\ enable_read_poll(t, f)
          \/ ~ Enabled(write_poll[f]) /\ enable_write_poll(t, f)
     \/ \E v \in NonFifoNums : enable_nonfifo_poll(t, v)

Deconfigure(t) ==
  /\ Reconfigure
  /\ t \in Pollers
  /\ \/ \E f \in Fifos : \/ disable_poll(t, read_poll[f])
                         \/ disable_poll(t, write_poll[f])
                         \/ unbind_from_read_poll(t, f)
                         \/ unbind_from_write_poll(t, f)
     \/ \E v \in NonFifoNums : disable_nonfifo_poll(t, v)

(* What a thread does inside a call it has made. *)
Run(t) ==
  \/ Readiness(t)
  \/ enqueue_woken(t)
  \/ enqueue_check(t)
  \/ dequeue_woken(t)
  \/ dequeue_signal(t)
  \/ poll_woken(t)
  \/ poll_group_wakeup(t)
  \/ enable_check(t)
  \/ UsePolled(t)

Next ==
  \E t \in Threads : \/ Call(t)
                     \/ Configure(t)
                     \/ Deconfigure(t)
                     \/ Run(t)
                     \/ SpuriousWakeup(t)

Spec == Init /\ [][Next]_vars

(* The operating system runs every thread that is not blocked, and the     *)
(* polling and consuming loops call poll and dequeue again and again.      *)
Fairness ==
  /\ \A t \in Threads : WF_vars(Run(t))
  /\ \A t \in Consumers \cup Pollers : WF_vars(Call(t))

FairSpec == Spec /\ Fairness

-----------------------------------------------------------------------------
ReadLabels == {"mr_signal", "mr_fifo", "mr_poll", "mr_wakeup",
               "mnr_fifo", "mnr_poll", "mnr_check", "er_check"}
WriteLabels == {"mw_signal", "mw_fifo", "mw_poll", "mw_wakeup",
                "mnw_fifo", "mnw_poll", "enq_check", "ew_check"}
WaitLabels == {"enq_wait", "enq_woken", "deq_wait", "deq_woken", "deq_signal"}
PollLabels == {"poll_wait", "poll_woken", "polled", "pg_wakeup"}
Labels == {"idle"} \cup ReadLabels \cup WriteLabels \cup WaitLabels
            \cup PollLabels

Calls == [op : {"none", "enqueue", "dequeue", "enable"},
          f : Fifos \cup {Null}, msg : Msgs \cup {Null},
          was_empty : BOOLEAN, non_readable : BOOLEAN,
          signal_producer : BOOLEAN, poll : Positions \cup {Null}]

Groups == [ready : SUBSET PollNums, mask : SUBSET PollNums,
           start_pos : PollNums]

(* Every variable keeps the type its declaration in fifo.h gives it. *)
TypeOK ==
  /\ fifo \in [Fifos -> Rings]
  /\ out \in [Fifos -> Msgs \cup {NoMsg}]
  /\ read_poll \in [Fifos -> Positions \cup {Null}]
  /\ write_poll \in [Fifos -> Positions \cup {Null}]
  /\ group \in [Pollers -> Groups]
  /\ pc \in [Threads -> Labels]
  /\ call \in [Threads -> Calls]

(* Thread t, inside a call on f, will still set the read-ready bit of f or *)
(* look at the ring again before it returns.                               *)
OwesReadable(t, f) ==
  /\ call[t].f = f
  /\ \/ pc[t] \in ReadLabels \ {"mr_wakeup"}
     \/ pc[t] \in WriteLabels /\ call[t].was_empty
     \/ pc[t] \in WriteLabels /\ call[t].non_readable

(* A FIFO that holds a message and is enabled for read polling is marked   *)
(* ready, or a thread inside enqueue, dequeue or enable is about to mark   *)
(* it: the ready bit that dequeue clears without the FIFO mutex is never   *)
(* lost to an enqueue that runs between its critical sections.             *)
ReadReadiness ==
  \A f \in Fifos :
    Enabled(read_poll[f]) /\ ~ is_empty(fifo[f]) =>
      \/ read_poll[f].num \in group[read_poll[f].group].ready
      \/ \E t \in Threads : OwesReadable(t, f)

OwesWritable(t, f) ==
  /\ call[t].f = f
  /\ pc[t] \in WriteLabels \ {"mw_wakeup"}

(* The same for writing: a FIFO with queue_full clear that is enabled for  *)
(* write polling is marked ready, or a thread that filled it, or one that  *)
(* drained it below the low water mark, is about to mark it.               *)
WriteReadiness ==
  \A f \in Fifos :
    Enabled(write_poll[f]) /\ ~ fifo[f].queue_full =>
      \/ write_poll[f].num \in group[write_poll[f].group].ready
      \/ \E t \in Threads : OwesWritable(t, f)

(* A thread that sleeps in poll while one of its enabled numbers is ready  *)
(* is about to be woken by the thread that made the number ready.          *)
PollerAwake ==
  \A g \in Pollers :
    pc[g] = "poll_wait" /\ group[g].ready \cap group[g].mask # {} =>
      \E t \in Threads : /\ pc[t] \in {"mr_wakeup", "mw_wakeup", "pg_wakeup"}
                         /\ call[t].poll.group = g

(* Thread t is about to take a message from f, or to signal consumer_cond. *)
WakesConsumer(t, f) ==
  /\ call[t].f = f
  /\ \/ pc[t] \in {"deq_woken", "mr_signal"}
     \/ pc[t] \in WriteLabels /\ call[t].was_empty

(* A consumer that sleeps in dequeue while its FIFO holds a message is     *)
(* about to be signalled by the enqueue that found the FIFO empty, or      *)
(* another consumer is on its way to the message ("Wait until the queue is *)
(* not empty").                                                            *)
ConsumerAwake ==
  \A f \in Fifos :
    ConsumerWaiters(f) # {} /\ ~ is_empty(fifo[f]) =>
      \E t \in Threads : WakesConsumer(t, f)

(* Thread t is about to put a message on f, or to signal producer_cond.    *)
WakesProducer(t, f) ==
  /\ call[t].f = f
  /\ \/ pc[t] \in {"enq_woken", "mw_signal", "deq_signal"}
     \/ pc[t] # "idle" /\ call[t].signal_producer

(* Once a dequeue has cleared queue_full, no producer sleeps on in enqueue *)
(* unless a signal is still to come or another producer is on its way      *)
(* ("Wait until there's space on the queue").                              *)
ProducerAwake ==
  \A f \in Fifos :
    ProducerWaiters(f) # {} /\ ~ fifo[f].queue_full =>
      \E t \in Threads : WakesProducer(t, f)

-----------------------------------------------------------------------------
Queues == INSTANCE BoundedQueues
            WITH q <- [f \in Fifos |-> Contents(fifo[f])], Capacity <- NumEnts

(* The rings implement bounded queues: whatever the threads interleave,    *)
(* messages leave in the order they entered, once each, none is lost, and  *)
(* at most num_ents are held.                                              *)
ImplementsQueues == Queues!Spec

(* A FIFO that is enabled for reading and holds a message is polled and    *)
(* read in the end, whatever the other FIFOs of the group do.              *)
ReadablePolled ==
  \A f \in Fifos :
    Enabled(read_poll[f]) /\ ~ is_empty(fifo[f])
      ~> \E t \in Pollers : pc[t] = "polled" /\ call[t].poll = read_poll[f]

(* A producer that sleeps in enqueue on a FIFO that is enabled for read    *)
(* polling gets its message into the queue in the end: the poller drains   *)
(* it below the low water mark and the signal reaches the producer.        *)
ProducersServed ==
  \A t \in Threads :
    pc[t] = "enq_wait" /\ Enabled(read_poll[call[t].f])
      ~> pc[t] \notin {"enq_wait", "enq_woken"}
=============================================================================
