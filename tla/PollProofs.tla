----------------------------- MODULE PollProofs ------------------------------
(***************************************************************************)
(* Nobody sleeps in poll over a FIFO that is ready: the ready bit is set   *)
(* under the mutex of the poll group and the condition variable signalled  *)
(* after it was released, and still no wakeup is lost.                     *)
(***************************************************************************)
EXTENDS FifoProofs

WakeLabels == {"mr_wakeup", "mw_wakeup", "pg_wakeup"}

(* The numbers of group g that a poll would find. *)
Ready(g) == group[g].ready \cap group[g].mask

(* Thread u does not lose a wakeup that it owes. *)
Owes(u) == pc[u] \in WakeLabels => pc'[u] = pc[u] /\ call'[u] = call[u]

(* Group g does not get a ready number while its thread goes on sleeping. *)
SleepsOn(g) ==
  pc'[g] = "poll_wait" =>
    pc[g] = "poll_wait" /\ group'[g].ready \cap group'[g].mask \subseteq Ready(g)

(* Steps that wake nobody and make nothing ready. *)
LEMMA Kept ==
  ASSUME PollerAwake, \A g \in Pollers : SleepsOn(g), \A u \in Threads : Owes(u)
  PROVE  PollerAwake'
<1> SUFFICES ASSUME NEW g \in Pollers, pc'[g] = "poll_wait",
                    group'[g].ready \cap group'[g].mask # {}
             PROVE  \E u \in Threads : /\ pc'[u] \in WakeLabels
                                       /\ call'[u].poll.group = g
  BY DEF PollerAwake, WakeLabels
<1>1. pc[g] = "poll_wait" /\ Ready(g) # {}
  BY DEF SleepsOn
<1>2. PICK u \in Threads : pc[u] \in WakeLabels /\ call[u].poll.group = g
  BY <1>1 DEF PollerAwake, Ready, WakeLabels
<1> QED BY <1>2 DEF Owes

(* What a step of t leaves alone. *)
LEMMA StepKeeps ==
  ASSUME ControlOK, NEW t \in Threads, NEW l, NEW c, Step(t, l, c)
  PROVE  /\ pc'[t] = l /\ call'[t] = Locals(l, c)
         /\ \A u \in Threads : u # t => pc'[u] = pc[u] /\ call'[u] = call[u]
BY DEF Step, ControlOK

(* A step of a thread that owes no wakeup. *)
LEMMA StepKept ==
  ASSUME ControlOK, PollerAwake, NEW t \in Threads, NEW l, NEW c, Step(t, l, c),
         pc[t] \notin WakeLabels, l # "poll_wait",
         \A g \in Pollers : g # t =>
           group'[g].ready \cap group'[g].mask \subseteq Ready(g)
  PROVE  PollerAwake'
<1>1. /\ pc'[t] = l
      /\ \A u \in Threads : u # t => pc'[u] = pc[u] /\ call'[u] = call[u]
  BY StepKeeps
<1>2. \A u \in Threads : Owes(u)
  BY <1>1 DEF Owes
<1>3. \A g \in Pollers : SleepsOn(g)
  BY <1>1 DEF SleepsOn, Threads
<1> QED BY <1>2, <1>3, Kept

(* A signal of producer_cond or consumer_cond. *)
LEMMA SignalKept ==
  ASSUME ControlOK, PollerAwake, NEW t \in Threads, NEW l, NEW c,
         NEW W \in SUBSET Threads, NEW l2, StepSignal(t, l, c, W, l2),
         pc[t] \notin WakeLabels, l # "poll_wait", l2 # "poll_wait",
         \A w \in W : pc[w] \notin WakeLabels,
         UNCHANGED group
  PROVE  PollerAwake'
<1>1. \A u \in Threads : pc'[u] \in {pc[u], l, l2}
  BY DEF StepSignal, ControlOK
<1>2. \A u \in Threads : u # t => call'[u] = call[u]
  BY DEF StepSignal, ControlOK
<1>3. \A u \in Threads : u # t /\ u \notin W => pc'[u] = pc[u]
  BY DEF StepSignal, ControlOK
<1>4. \A u \in Threads : Owes(u)
  BY <1>2, <1>3 DEF Owes
<1>5. \A g \in Pollers : SleepsOn(g)
  BY <1>1 DEF SleepsOn, Threads, Ready
<1> QED BY <1>4, <1>5, Kept

(* A signal of the condition variable of a poll group. *)
LEMMA Wakeup ==
  ASSUME ControlOK, PollerAwake, NEW t \in Threads, NEW l, NEW c,
         pc[t] \in WakeLabels, l # "poll_wait",
         StepSignal(t, l, c, PollWaiters(call[t].poll.group), "poll_woken"),
         UNCHANGED group
  PROVE  PollerAwake'
<1> SUFFICES ASSUME NEW g \in Pollers, pc'[g] = "poll_wait", Ready(g) # {}
             PROVE  \E u \in Threads : /\ pc'[u] \in WakeLabels
                                       /\ call'[u].poll.group = g
  BY DEF PollerAwake, WakeLabels, Ready
<1>0. PICK W : W = PollWaiters(call[t].poll.group)
  OBVIOUS
<1>1. W \in SUBSET Threads /\ \A w \in W : pc[w] = "poll_wait"
  BY <1>0 DEF PollWaiters, Threads
<1>2. \A u \in Threads : pc'[u] \in {pc[u], l, "poll_woken"}
  BY <1>0 DEF StepSignal, ControlOK
<1>3. \A u \in Threads : u # t => call'[u] = call[u]
  BY DEF StepSignal, ControlOK
<1>4. \A u \in Threads : u # t /\ u \notin W => pc'[u] = pc[u]
  BY <1>0 DEF StepSignal, ControlOK
<1>5. pc[g] = "poll_wait" /\ g \in Threads
  BY <1>2 DEF Threads
<1>6. call[t].poll.group # g
  <2>1. SUFFICES ASSUME call[t].poll.group = g PROVE FALSE
    OBVIOUS
  <2>2. W = {g}
    BY <1>0, <1>5, <2>1 DEF PollWaiters
  <2>3. pc' = [pc EXCEPT ![t] = l, ![g] = "poll_woken"]
    BY <1>0, <2>2 DEF StepSignal
  <2> QED BY <1>5, <2>3 DEF ControlOK
<1>7. PICK u \in Threads : pc[u] \in WakeLabels /\ call[u].poll.group = g
  BY <1>5 DEF PollerAwake, Ready, WakeLabels
<1>8. u # t /\ u \notin W
  BY <1>1, <1>6, <1>7 DEF WakeLabels
<1> QED BY <1>3, <1>4, <1>7, <1>8

(* A thread that sets a ready bit goes on to the wakeup. *)
LEMMA Announced ==
  ASSUME ControlOK, PollerAwake, group \in [Pollers -> Groups],
         NEW t \in Threads, NEW l \in WakeLabels, NEW c, Step(t, l, c),
         pc[t] \notin WakeLabels, c.poll \in Positions,
         group' = [group EXCEPT ![c.poll.group].ready = @ \cup {c.poll.num}]
  PROVE  PollerAwake'
<1> SUFFICES ASSUME NEW g \in Pollers, pc'[g] = "poll_wait",
                    group'[g].ready \cap group'[g].mask # {}
             PROVE  \E u \in Threads : /\ pc'[u] \in WakeLabels
                                       /\ call'[u].poll.group = g
  BY DEF PollerAwake, WakeLabels
<1>1. /\ pc'[t] = l /\ call'[t] = Locals(l, c)
      /\ \A u \in Threads : u # t => pc'[u] = pc[u] /\ call'[u] = call[u]
  BY StepKeeps
<1>2. call'[t] = c
  BY <1>1 DEF Locals, WakeLabels
<1>3. CASE c.poll.group = g
  BY <1>1, <1>2, <1>3
<1>4. CASE c.poll.group # g
  <2>1. group'[g] = group[g]
    BY <1>4
  <2>2. g # t /\ g \in Threads
    BY <1>1 DEF WakeLabels, Threads
  <2>3. PICK u \in Threads : pc[u] \in WakeLabels /\ call[u].poll.group = g
    BY ZenonT(30), <1>1, <2>1, <2>2 DEF PollerAwake, WakeLabels
  <2> QED BY <1>1, <2>3
<1> QED BY <1>3, <1>4

(* A bit that is cleared makes no number ready. *)
LEMMA Cleared ==
  ASSUME group \in [Pollers -> Groups], NEW p \in Positions,
         \/ group' = [group EXCEPT ![p.group].ready = @ \ {p.num}]
         \/ group' = [group EXCEPT ![p.group].mask = @ \ {p.num}]
         \/ group' = [group EXCEPT ![p.group].mask = @ \ {p.num},
                                   ![p.group].ready = @ \ {p.num}]
  PROVE  \A g \in Pollers :
           group'[g].ready \cap group'[g].mask \subseteq Ready(g)
<1>1. \A g \in Pollers : /\ group'[g].ready \subseteq group[g].ready
                         /\ group'[g].mask \subseteq group[g].mask
  BY DEF Groups, Positions
<1> QED BY <1>1 DEF Ready

-----------------------------------------------------------------------------
(* The actions: what follows the first critical section of a call. *)
LEMMA ReadinessAwake ==
  ASSUME Inv, PollerAwake, NEW t \in Threads, Readiness(t)
  PROVE  PollerAwake'
<1>0. /\ ControlOK /\ Fits(t, pc[t], call[t]) /\ group \in [Pollers -> Groups]
      /\ call[t] \in Calls
  BY DEF Inv, TypeOK, ControlOK, CallOK
<1>1. \A c : /\ AfterReadable(c) \in {"idle", "deq_signal"}
             /\ AfterWritable(c) \in {"idle", "mr_signal", "mnr_fifo", "deq_signal"}
  BY DEF AfterReadable, AfterWritable
<1>2. \A f : /\ ConsumerWaiters(f) \in SUBSET Threads
             /\ ProducerWaiters(f) \in SUBSET Threads
             /\ \A w \in ConsumerWaiters(f) : pc[w] \notin WakeLabels
             /\ \A w \in ProducerWaiters(f) : pc[w] \notin WakeLabels
  BY DEF ConsumerWaiters, ProducerWaiters, WakeLabels
<1>3. ASSUME UNCHANGED group
      PROVE  \A g \in Pollers :
               group'[g].ready \cap group'[g].mask \subseteq Ready(g)
  BY <1>3 DEF Ready
<1>4. \A p : [call[t] EXCEPT !.poll = p].poll = p
  BY <1>0 DEF Calls
<1>5. pc[t] \in {"mr_poll", "mnr_poll", "mw_poll", "mnw_poll"} =>
        call[t].poll \in Positions
  BY <1>0, FifoAssumption DEF Fits, ReadLabels, WriteLabels, WaitLabels
<1>6. CASE make_readable(t)
  <2>1. CASE pc[t] = "mr_signal"
    <3>1. /\ StepSignal(t, "mr_fifo", call[t], ConsumerWaiters(call[t].f),
                        "deq_woken")
          /\ UNCHANGED group
      BY <1>6, <2>1 DEF make_readable
    <3>2. pc[t] \notin WakeLabels
      BY <2>1 DEF WakeLabels
    <3> QED BY <1>0, <1>2, <3>1, <3>2, SignalKept
  <2>2. CASE pc[t] = "mr_fifo"
    <3>1. /\ Step(t, IF read_poll[call[t].f] = Null THEN AfterReadable(call[t])
                     ELSE "mr_poll",
                  [call[t] EXCEPT !.poll = read_poll[call[t].f]])
          /\ UNCHANGED group
      BY <1>6, <2>2 DEF make_readable
    <3>2. pc[t] \notin WakeLabels
      BY <2>2 DEF WakeLabels
    <3> QED BY <1>0, <1>1, <1>3, <3>1, <3>2, StepKept
  <2>3. CASE pc[t] = "mr_poll"
    <3>1. \/ /\ group' = [group EXCEPT ![call[t].poll.group].ready =
                                         @ \cup {call[t].poll.num}]
             /\ Step(t, "mr_wakeup", call[t])
          \/ Step(t, AfterReadable(call[t]), call[t]) /\ UNCHANGED group
      BY <1>6, <2>3 DEF make_readable
    <3>2. pc[t] \notin WakeLabels /\ "mr_wakeup" \in WakeLabels
      BY <2>3 DEF WakeLabels
    <3> QED BY <1>0, <1>1, <1>3, <1>5, <2>3, <3>1, <3>2, StepKept, Announced
  <2>4. CASE pc[t] = "mr_wakeup"
    <3>1. /\ StepSignal(t, AfterReadable(call[t]), call[t],
                        PollWaiters(call[t].poll.group), "poll_woken")
          /\ UNCHANGED group
      BY <1>6, <2>4 DEF make_readable
    <3>2. pc[t] \in WakeLabels
      BY <2>4 DEF WakeLabels
    <3> QED BY <1>0, <1>1, <3>1, <3>2, Wakeup
  <2> QED BY <1>6, <2>1, <2>2, <2>3, <2>4 DEF make_readable
<1>7. CASE make_writable(t)
  <2>1. CASE pc[t] = "mw_signal"
    <3>1. /\ StepSignal(t, "mw_fifo", call[t], ProducerWaiters(call[t].f),
                        "enq_woken")
          /\ UNCHANGED group
      BY <1>7, <2>1 DEF make_writable
    <3>2. pc[t] \notin WakeLabels
      BY <2>1 DEF WakeLabels
    <3> QED BY <1>0, <1>2, <3>1, <3>2, SignalKept
  <2>2. CASE pc[t] = "mw_fifo"
    <3>1. /\ Step(t, IF write_poll[call[t].f] = Null THEN AfterWritable(call[t])
                     ELSE "mw_poll",
                  [call[t] EXCEPT !.poll = write_poll[call[t].f]])
          /\ UNCHANGED group
      BY <1>7, <2>2 DEF make_writable
    <3>2. pc[t] \notin WakeLabels
      BY <2>2 DEF WakeLabels
    <3> QED BY <1>0, <1>1, <1>3, <3>1, <3>2, StepKept
  <2>3. CASE pc[t] = "mw_poll"
    <3>1. \/ /\ group' = [group EXCEPT ![call[t].poll.group].ready =
                                         @ \cup {call[t].poll.num}]
             /\ Step(t, "mw_wakeup", call[t])
          \/ Step(t, AfterWritable(call[t]), call[t]) /\ UNCHANGED group
      BY <1>7, <2>3 DEF make_writable
    <3>2. pc[t] \notin WakeLabels /\ "mw_wakeup" \in WakeLabels
      BY <2>3 DEF WakeLabels
    <3> QED BY <1>0, <1>1, <1>3, <1>5, <2>3, <3>1, <3>2, StepKept, Announced
  <2>4. CASE pc[t] = "mw_wakeup"
    <3>1. /\ StepSignal(t, AfterWritable(call[t]), call[t],
                        PollWaiters(call[t].poll.group), "poll_woken")
          /\ UNCHANGED group
      BY <1>7, <2>4 DEF make_writable
    <3>2. pc[t] \in WakeLabels
      BY <2>4 DEF WakeLabels
    <3> QED BY ZenonT(30), <1>0, <1>1, <3>1, <3>2, Wakeup
  <2> QED BY <1>7, <2>1, <2>2, <2>3, <2>4 DEF make_writable
<1>8. CASE make_non_readable_after_dequeue(t) \/ mark_non_writable(t)
  <2>1. /\ pc[t] \in {"mnr_fifo", "mnr_poll", "mnr_check", "mnw_fifo", "mnw_poll"}
        /\ \E l, c : Step(t, l, c) /\ l # "poll_wait"
        /\ \/ UNCHANGED group
           \/ /\ pc[t] \in {"mnr_poll", "mnw_poll"}
              /\ group' = [group EXCEPT ![call[t].poll.group].ready =
                                          @ \ {call[t].poll.num}]
    BY <1>1, <1>8 DEF make_non_readable_after_dequeue, mark_non_readable,
                      mark_non_writable
  <2>2. \A g \in Pollers :
          group'[g].ready \cap group'[g].mask \subseteq Ready(g)
    BY Zenon, <1>0, <1>3, <1>5, <2>1, Cleared
  <2>3. pc[t] \notin WakeLabels
    BY <2>1 DEF WakeLabels
  <2> QED BY <1>0, <2>1, <2>2, <2>3, StepKept
<1> QED BY <1>6, <1>7, <1>8 DEF Readiness

(* The first critical section of enqueue and that of dequeue announce      *)
(* nothing.                                                                *)
LEMMA EnqueueAwake ==
  ASSUME Inv, PollerAwake, NEW t \in Threads, NEW f \in Fifos, NEW m \in Msgs,
         NEW w \in BOOLEAN, pc[t] \in {"idle", "polled"}, enqueue(t, f, m, w)
  PROVE  PollerAwake'
<1>1. /\ \E l, c : Step(t, l, c) /\ l # "poll_wait"
      /\ UNCHANGED group
  BY DEF enqueue, EnqueueWork
<1>2. ControlOK /\ pc[t] \notin WakeLabels
  BY DEF Inv, TypeOK, ControlOK, WakeLabels
<1>3. \A g \in Pollers :
        group'[g].ready \cap group'[g].mask \subseteq Ready(g)
  BY <1>1 DEF Ready
<1> QED BY <1>1, <1>2, <1>3, StepKept

(* As enqueue. *)
LEMMA DequeueAwake ==
  ASSUME Inv, PollerAwake, NEW t \in Threads, NEW f \in Fifos,
         NEW w \in BOOLEAN, pc[t] \in {"idle", "polled"}, dequeue(t, f, w)
  PROVE  PollerAwake'
<1>1. /\ \E l, c : Step(t, l, c) /\ l # "poll_wait"
      /\ UNCHANGED group
  BY DEF dequeue, DequeueWork
<1>2. ControlOK /\ pc[t] \notin WakeLabels
  BY DEF Inv, TypeOK, ControlOK, WakeLabels
<1>3. \A g \in Pollers :
        group'[g].ready \cap group'[g].mask \subseteq Ready(g)
  BY <1>1 DEF Ready
<1> QED BY <1>1, <1>2, <1>3, StepKept

(* What find_roll returns is a number. *)
LEMMA FoundInt ==
  ASSUME TypeOK, NEW g \in Pollers
  PROVE  Found(g) \in Int
<1> DEFINE S == IF g \in NoPollGroups THEN group[g].mask
                ELSE group[g].ready \cap group[g].mask
<1>1. S \in SUBSET PollNums /\ group[g].start_pos \in PollNums
  BY DEF TypeOK, Groups
<1>2. Found(g) = find_roll(S, group[g].start_pos)
  BY DEF Found
<1>3. Found(g) \in PollNums \cup {MaxFifos}
  BY <1>1, <1>2, FindRoll
<1> QED BY <1>3, MaxFifosType DEF PollNums

(* Polling: a thread goes to sleep only if nothing is ready. *)
LEMMA PollAwake ==
  ASSUME Inv, PollerAwake, NEW t \in Pollers, NEW w \in BOOLEAN,
         (pc[t] = "idle" /\ poll(t, w)) \/ poll_woken(t)
  PROVE  PollerAwake'
<1>0. /\ t \in Threads /\ ControlOK /\ Fits(t, pc[t], call[t])
      /\ group \in [Pollers -> Groups] /\ pc[t] \notin WakeLabels
  BY DEF Inv, TypeOK, ControlOK, CallOK, Threads, WakeLabels, poll_woken
<1>1. \A g \in Pollers :
        group'[g].ready \cap group'[g].mask \subseteq Ready(g)
  <2>1. \/ UNCHANGED group
        \/ \E x : group' = [group EXCEPT ![t].start_pos = x]
    BY DEF poll, poll_woken
  <2>2. \A g \in Pollers : /\ group'[g].ready = group[g].ready
                           /\ group'[g].mask = group[g].mask
    BY <1>0, <2>1 DEF Groups
  <2> QED BY <2>2 DEF Ready
<1>2. \/ \E l, c : Step(t, l, c) /\ l # "poll_wait"
      \/ /\ Step(t, "poll_wait", NoCall) /\ UNCHANGED group
         /\ ~ (Found(t) < MaxFifos) /\ t \notin NoPollGroups
  <2>1. CASE poll(t, w)
    <3>1. CASE Found(t) < MaxFifos /\ Polled(t, Found(t))
      BY <3>1 DEF Polled
    <3>2. CASE /\ Found(t) >= MaxFifos
               /\ Step(t, IF w /\ t \notin NoPollGroups THEN "poll_wait"
                          ELSE "idle", NoCall)
               /\ UNCHANGED group
      <4>1. Found(t) >= MaxFifos => ~ (Found(t) < MaxFifos)
        BY FoundInt, MaxFifosType DEF Inv
      <4> QED BY <3>2, <4>1
    <3> QED BY <2>1, <3>1, <3>2 DEF poll
  <2>2. CASE poll_woken(t)
    <3>1. t \notin NoPollGroups
      BY <1>0, <2>2 DEF poll_woken, Fits
    <3> QED BY <2>2, <3>1 DEF poll_woken, Polled
  <2> QED BY <2>1, <2>2
<1>3. CASE \E l, c : Step(t, l, c) /\ l # "poll_wait"
  BY <1>0, <1>1, <1>3, StepKept
<1>4. CASE /\ Step(t, "poll_wait", NoCall) /\ UNCHANGED group
           /\ ~ (Found(t) < MaxFifos) /\ t \notin NoPollGroups
  <2>1. Ready(t) = {}
    BY <1>4, FoundOK DEF Inv, Ready
  <2>2. \A u \in Threads : u # t => pc'[u] = pc[u] /\ call'[u] = call[u]
    BY <1>0, <1>4, StepKeeps
  <2>3. ASSUME NEW g \in Pollers, pc'[g] = "poll_wait",
               group'[g].ready \cap group'[g].mask # {}
        PROVE  \E u \in Threads : /\ pc'[u] \in WakeLabels
                                  /\ call'[u].poll.group = g
    <3>1. g # t /\ g \in Threads
      BY <1>4, <2>1, <2>3 DEF Ready, Threads
    <3>2. PICK u \in Threads : pc[u] \in WakeLabels /\ call[u].poll.group = g
      BY <1>4, <2>2, <2>3, <3>1 DEF PollerAwake, WakeLabels
    <3> QED BY <1>0, <2>2, <3>2
  <2> QED BY <2>3 DEF PollerAwake, WakeLabels
<1> QED BY <1>2, <1>3, <1>4

(* A signal of a number that is not a FIFO. *)
LEMMA GroupAwake ==
  ASSUME Inv, PollerAwake, NEW t \in Threads, NEW g \in Pollers,
         NEW v \in NonFifoNums, poll_group_signal(t, g, v)
  PROVE  PollerAwake'
<1>0. PICK c : c = [NoCall EXCEPT !.poll = [group |-> g, num |-> v]]
  BY Zenon
<1>1. c.poll.group = g /\ c.poll.num = v /\ c.poll \in Positions
  BY <1>0, FifoAssumption DEF NoCall, Positions
<1>2. /\ ControlOK /\ group \in [Pollers -> Groups]
      /\ pc[t] \notin WakeLabels /\ "pg_wakeup" \in WakeLabels
  BY DEF Inv, TypeOK, ControlOK, poll_group_signal, WakeLabels
<1>3. /\ group' = [group EXCEPT ![c.poll.group].ready = @ \cup {c.poll.num}]
      /\ Step(t, "pg_wakeup", c)
  <2>1. /\ group' = [group EXCEPT ![g].ready = @ \cup {v}]
        /\ Step(t, "pg_wakeup", [NoCall EXCEPT !.poll = [group |-> g, num |-> v]])
    BY DEF poll_group_signal
  <2>2. Step(t, "pg_wakeup", c)
    BY <1>0, <2>1
  <2> QED BY <1>1, <2>1, <2>2
<1> QED BY Zenon, <1>1, <1>2, <1>3, Announced

(* The owner of a group is not asleep when it enables a number. *)
LEMMA ConfigureAwake ==
  ASSUME Inv, PollerAwake, NEW t \in Pollers, Configure(t) \/ Deconfigure(t)
  PROVE  PollerAwake'
<1>0. /\ t \in Threads /\ ControlOK /\ group \in [Pollers -> Groups]
      /\ read_poll \in [Fifos -> Positions \cup {Null}]
      /\ write_poll \in [Fifos -> Positions \cup {Null}]
  BY DEF Inv, TypeOK, ControlOK, Threads
<1>1. ASSUME pc[t] = "idle", UNCHANGED <<pc, call>>,
             \A g \in Pollers : g # t =>
               group'[g].ready \cap group'[g].mask \subseteq Ready(g)
      PROVE  PollerAwake'
  <2>1. \A u \in Threads : Owes(u)
    BY <1>1 DEF Owes
  <2>2. \A g \in Pollers : SleepsOn(g)
    BY <1>1 DEF SleepsOn
  <2> QED BY <2>1, <2>2, Kept
<1>2. ASSUME NEW p \in Positions, Forget(p), pc[t] = "idle",
             UNCHANGED <<pc, call>>
      PROVE  PollerAwake'
  BY ZenonT(30), <1>0, <1>1, <1>2, Cleared DEF Forget
<1>3. ASSUME NEW f \in Fifos,
             \/ bind_to_read_poll(t, f) \/ unbind_from_read_poll(t, f)
             \/ bind_to_write_poll(t, f) \/ unbind_from_write_poll(t, f)
      PROVE  PollerAwake'
  <2>1. PICK p \in Positions : Forget(p)
    BY <1>0, <1>3, FifoAssumption
       DEF bind_to_read_poll, unbind_from_read_poll, bind_to_write_poll,
           unbind_from_write_poll, OwnerOnly
  <2>2. pc[t] = "idle" /\ UNCHANGED <<pc, call>>
    BY <1>3 DEF bind_to_read_poll, unbind_from_read_poll, bind_to_write_poll,
                unbind_from_write_poll, OwnerOnly
  <2> QED BY <1>2, <2>1, <2>2
<1>4. ASSUME NEW f \in Fifos, NEW p, NEW l \in {"er_check", "ew_check"},
             enable_poll(t, f, p, l)
      PROVE  PollerAwake'
  <2>1. /\ pc[t] = "idle" /\ \E c : Step(t, l, c)
        /\ group' = [group EXCEPT ![t].mask = @ \cup {p.num}]
    BY <1>4 DEF enable_poll, OwnerOnly
  <2>2. \A g \in Pollers : g # t =>
          group'[g].ready \cap group'[g].mask \subseteq Ready(g)
    BY <1>0, <2>1 DEF Ready
  <2>3. pc[t] \notin WakeLabels /\ l # "poll_wait"
    BY <2>1 DEF WakeLabels
  <2> QED BY <1>0, <2>1, <2>2, <2>3, StepKept
<1>5. ASSUME NEW p \in Positions \cup {Null}, disable_poll(t, p)
      PROVE  PollerAwake'
  <2>1. /\ p \in Positions /\ p.group = t /\ pc[t] = "idle"
        /\ UNCHANGED <<pc, call>>
        /\ group' = [group EXCEPT ![t].mask = @ \ {p.num}]
    BY <1>5 DEF disable_poll, OwnerOnly
  <2>2. group' = [group EXCEPT ![p.group].mask = @ \ {p.num}]
    BY <2>1
  <2> QED BY Zenon, <1>0, <1>1, <2>1, <2>2, Cleared
<1>6. ASSUME NEW v \in NonFifoNums, enable_nonfifo_poll(t, v)
      PROVE  PollerAwake'
  <2>1. \A g \in Pollers : g # t =>
          group'[g].ready \cap group'[g].mask \subseteq Ready(g)
    BY <1>0, <1>6 DEF Ready, enable_nonfifo_poll
  <2> QED BY <1>1, <1>6, <2>1 DEF enable_nonfifo_poll
<1>7. ASSUME NEW v \in NonFifoNums, disable_nonfifo_poll(t, v)
      PROVE  PollerAwake'
  <2>1. [group |-> t, num |-> v] \in Positions
    BY FifoAssumption DEF Positions
  <2> QED BY <1>5, <1>7, <2>1 DEF disable_nonfifo_poll
<1>8. CASE Configure(t)
  BY <1>3, <1>4, <1>6, <1>8 DEF Configure, enable_read_poll, enable_write_poll
<1>9. CASE Deconfigure(t)
  <2>1. \A f \in Fifos : /\ disable_poll(t, read_poll[f]) => PollerAwake'
                         /\ disable_poll(t, write_poll[f]) => PollerAwake'
    BY <1>0, <1>5
  <2> QED BY <1>3, <1>7, <1>9, <2>1 DEF Deconfigure
<1> QED BY <1>8, <1>9

(* The steps inside a call. *)
LEMMA RunAwake ==
  ASSUME Inv, PollerAwake, NEW t \in Threads, Run(t)
  PROVE  PollerAwake'
<1>0. /\ ControlOK /\ Fits(t, pc[t], call[t]) /\ group \in [Pollers -> Groups]
  BY DEF Inv, TypeOK, ControlOK, CallOK
<1>1. ASSUME UNCHANGED group, pc[t] \notin WakeLabels,
             \E l, c : Step(t, l, c) /\ l # "poll_wait"
      PROVE  PollerAwake'
  <2>1. \A g \in Pollers :
          group'[g].ready \cap group'[g].mask \subseteq Ready(g)
    BY <1>1 DEF Ready
  <2> QED BY <1>0, <1>1, <2>1, StepKept
<1>2. CASE enqueue_woken(t) \/ dequeue_woken(t)
  <2>1. /\ UNCHANGED group /\ pc[t] \in {"enq_woken", "deq_woken"}
        /\ \E l, c : Step(t, l, c) /\ l # "poll_wait"
    BY <1>2 DEF enqueue_woken, dequeue_woken, EnqueueWork, DequeueWork
  <2> QED BY <1>1, <2>1 DEF WakeLabels
<1>3. CASE enqueue_check(t) \/ enable_check(t)
  <2>1. /\ UNCHANGED group /\ pc[t] \in {"enq_check", "er_check", "ew_check"}
        /\ \E l, c : Step(t, l, c) /\ l # "poll_wait"
    BY <1>3 DEF enqueue_check, enable_check, AfterWritable
  <2> QED BY <1>1, <2>1 DEF WakeLabels
<1>4. CASE dequeue_signal(t)
  <2>1. /\ StepSignal(t, "idle", NoCall, ProducerWaiters(call[t].f), "enq_woken")
        /\ UNCHANGED group /\ pc[t] \notin WakeLabels
    BY <1>4 DEF dequeue_signal, WakeLabels
  <2>2. /\ ProducerWaiters(call[t].f) \in SUBSET Threads
        /\ \A w \in ProducerWaiters(call[t].f) : pc[w] \notin WakeLabels
    BY DEF ProducerWaiters, WakeLabels
  <2> QED BY <1>0, <2>1, <2>2, SignalKept
<1>5. CASE poll_woken(t)
  <2>1. t \in Pollers
    BY <1>0, <1>5 DEF poll_woken, Fits
  <2> QED BY Zenon, <1>5, <2>1, PollAwake
<1>6. CASE poll_group_wakeup(t)
  BY <1>0, <1>6, Wakeup DEF poll_group_wakeup, WakeLabels
<1>7. CASE UsePolled(t)
  <2>1. CASE /\ pc[t] = "polled"
             /\ poll_group_unsignal(t)
    <3>1. call[t].poll \in Positions /\ call[t].poll.group = t
      BY <1>0, <2>1 DEF Fits
    <3>2. /\ group' = [group EXCEPT ![call[t].poll.group].ready =
                                      @ \ {call[t].poll.num}]
          /\ Step(t, "idle", NoCall)
      BY <2>1, <3>1 DEF poll_group_unsignal
    <3>3. pc[t] \notin WakeLabels
      BY <2>1 DEF WakeLabels
    <3>4. \A g \in Pollers :
            group'[g].ready \cap group'[g].mask \subseteq Ready(g)
      BY Zenon, <1>0, <3>1, <3>2, Cleared
    <3> QED BY <1>0, <3>2, <3>3, <3>4, StepKept
  <2>2. CASE /\ pc[t] = "polled"
             /\ \E f \in Fifos, m \in Msgs : enqueue(t, f, m, FALSE)
    BY Zenon, <2>2, EnqueueAwake
  <2>3. CASE pc[t] = "polled" /\ \E f \in Fifos : dequeue(t, f, FALSE)
    BY ZenonT(30), <2>3, DequeueAwake
  <2> QED BY ZenonT(30), <1>7, <2>1, <2>2, <2>3 DEF UsePolled
<1> QED BY <1>2, <1>3, <1>4, <1>5, <1>6, <1>7, ReadinessAwake DEF Run

(* All steps. *)
LEMMA NextAwake ==
  ASSUME Inv, PollerAwake, [Next]_vars
  PROVE  PollerAwake'
<1>1. ASSUME NEW t \in Threads, Call(t) PROVE PollerAwake'
  <2>1. \A w \in WaitModes : w \in BOOLEAN
    BY FifoAssumption
  <2> QED BY <1>1, <2>1, EnqueueAwake, DequeueAwake, GroupAwake, PollAwake DEF Call
<1>2. ASSUME NEW t \in Threads, SpuriousWakeup(t) PROVE PollerAwake'
  <2>0. ControlOK /\ t \in Threads
    BY DEF Inv, TypeOK, ControlOK
  <2>1. /\ pc[t] \notin WakeLabels
        /\ \E l \in {"enq_woken", "deq_woken", "poll_woken"} :
             pc' = [pc EXCEPT ![t] = l]
        /\ UNCHANGED <<group, call>>
    BY ZenonT(30), <1>2 DEF SpuriousWakeup, WakeLabels
  <2>2. \A u \in Threads : Owes(u)
    BY <2>0, <2>1 DEF Owes, ControlOK
  <2>3. \A g \in Pollers : SleepsOn(g)
    BY <2>0, <2>1 DEF SleepsOn, Ready, ControlOK, Threads
  <2> QED BY <2>2, <2>3, Kept
<1>3. ASSUME NEW t \in Threads, Configure(t) \/ Deconfigure(t)
      PROVE  PollerAwake'
  BY <1>3, ConfigureAwake DEF Configure, Deconfigure
<1>4. CASE UNCHANGED vars
  BY <1>4 DEF vars, PollerAwake
<1> QED BY <1>1, <1>2, <1>3, <1>4, RunAwake DEF Next

(* A thread that sleeps in poll while a number of its group is ready and   *)
(* enabled is about to be woken, for any number of threads, groups and     *)
(* FIFOs and with any reconfiguration by the owners of the groups: the     *)
(* signal that make_readable and make_writable send without the mutex of   *)
(* the group cannot come before the sleep it has to end.                   *)
THEOREM PollersWoken == Spec => []PollerAwake
<1>1. Init => PollerAwake
  BY DEF Init, PollerAwake, Threads
<1>2. Inv /\ PollerAwake /\ [Next]_vars => PollerAwake'
  BY NextAwake
<1> QED BY <1>1, <1>2, InitInv, NextInv, PTL DEF Spec
=============================================================================
