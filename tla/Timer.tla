-------------------------------- MODULE Timer --------------------------------
(***************************************************************************)
(* The timer wheel (lib/xdp2/timer.c, include/xdp2/timer.h).  What happens *)
(* between a lock and an unlock of the wheel mutex is one step, except     *)
(* that a run of the wheel, which holds the mutex over many slots, takes a *)
(* step per slot; no other thread takes the mutex meanwhile.  The callbacks*)
(* of expired timers are made without the mutex.                           *)
(*                                                                         *)
(* Time is an unsigned long and wraps at TimeMod.  A slot is a list in the *)
(* code; its order says in which order timers that expire together are     *)
(* called, of which nothing is promised, and a slot is a set here.         *)
(***************************************************************************)
EXTENDS Integers, FiniteSets

CONSTANTS
  Timers,
  NumSlots,        \* num_slots
  TimeMod,         \* 2 ^ __BITS_PER_LONG, a multiple of num_slots
  BatchSize,       \* callbacks of one batch of run_slot, 8 in the code
  Delays,          \* the delays that timers are added with
  StartTimes,      \* the time when the wheel is created
  TenSeconds,      \* the time the timer thread sleeps when there is no timer
  Apps,            \* the applications, see below
  NoTime

ASSUME TimerAssumption ==
  /\ NumSlots \in Nat \ {0} /\ TimeMod \in Nat \ {0}
  /\ TimeMod % (2 * NumSlots) = 0
  /\ BatchSize \in Nat \ {0}
  /\ Delays \subseteq Nat
  /\ StartTimes \subseteq 0 .. TimeMod - 1
  /\ TenSeconds \in Nat \ {0}
  /\ \A a \in Apps : /\ a.driver \in {"thread", "anytime", "punctual"}
                     /\ a.max_gap \in Nat
  /\ NoTime \notin 0 .. TimeMod - 1
  /\ IsFiniteSet(Timers)

(***************************************************************************)
(* A wheel is run by its timer thread, if                                  *)
(* xdp2_timer_create_wheel_with_timer_thread created it, or by threads of  *)
(* the application: anytime, when a pop is due or at other times, or       *)
(* punctually, in the very instant of the pop and taking no time.          *)
(* app.driver says which, app.ops is what the application does with timers,*)
(* and app.max_gap bounds how far time runs on from last_runtime.          *)
(***************************************************************************)
VARIABLES
  app,     \* the application; it never changes
  now,     \* the time that get_current_time returns
  timer,   \* timer[t]: struct xdp2_timer
  life,    \* life[t]: whether the application still owns the memory of t
  wheel,   \* struct xdp2_timer_wheel
  run,     \* the locals of the run that is scanning the wheel
  pop,     \* the time the application was asked to run the wheel at
  thread,  \* the timer thread
  missed   \* history: timers that were due before the timer thread started

vars == <<app, now, timer, life, wheel, run, pop, thread, missed>>

Times == 0 .. TimeMod - 1
Slots == 0 .. NumSlots - 1
UseTimerThread == app.driver = "thread"

Plus(x, d) == (x + d) % TimeMod

(* xdp2_seqno_ul_lt and xdp2_seqno_ul_gt. *)
seqno_lt(x, y) == (x - y) % TimeMod > TimeMod \div 2
seqno_gt(x, y) == seqno_lt(y, x)

(* Nothing reads gen and index of a timer that is not set. *)
NotSet == [timer_set |-> FALSE, gen |-> 0, index |-> 0]

(* "Expiration time is (gen * wheel->num_slots) + index" *)
expire_time(t) == timer[t].gen * NumSlots + timer[t].index

NoRun == [pc |-> "none", current_time |-> 0, old_gen |-> 0, new_gen |-> 0,
          gen |-> 0, index |-> 0, limit |-> 0, cbs |-> {}]

(* __xdp2_timer_create_wheel does not clear the wheel after malloc; what   *)
(* is assumed here is that the memory is zero.  With a timer thread,       *)
(* next_expire_time is set after it.                                       *)
Init ==
  /\ app \in Apps
  /\ now \in StartTimes
  /\ timer = [t \in Timers |-> NotSet]
  /\ life = [t \in Timers |-> "live"]
  /\ wheel = [slots |-> [i \in Slots |-> {}], slot_bitmap |-> {},
              next_expire_time |-> IF UseTimerThread THEN Plus(now, TenSeconds)
                                   ELSE 0,
              last_runtime |-> 0, timer_count |-> 0,
              running |-> FALSE, run_again |-> FALSE]
  /\ run = NoRun
  /\ pop = NoTime
  /\ thread = [pc |-> IF UseTimerThread THEN "start" ELSE "none",
               ts |-> 0, signalled |-> FALSE]
  /\ missed = {}

-----------------------------------------------------------------------------
MutexFree == run.pc \notin {"sweep", "aborted"}

(* Mutant: the timer thread is not signalled. *)
Mset_next_timer_pop_NoSignal(w) ==
  IF UseTimerThread THEN UNCHANGED <<pop, thread>>
    ELSE pop' = w.next_expire_time /\ UNCHANGED thread

(* set_next_timer_pop: the callback of the application, or the signal to   *)
(* the timer thread, which only a waiting thread hears.                    *)
set_next_timer_pop(w) ==
  IF UseTimerThread
    THEN /\ thread' = [thread EXCEPT !.signalled = @ \/ thread.pc = "wait"]
         /\ UNCHANGED pop
    ELSE pop' = w.next_expire_time /\ UNCHANGED thread

(* Mutant: the bit of an empty slot stays set. *)
Mtimer_remove_locked_KeepsBit(w, t) ==
  [w EXCEPT !.slots[timer[t].index] = @ \ {t}, !.timer_count = @ - 1]

timer_remove_locked(w, t) ==
  LET i == timer[t].index
  IN [w EXCEPT !.slots[i] = @ \ {t},
               !.slot_bitmap = IF w.slots[i] = {t} THEN @ \ {i} ELSE @,
               !.timer_count = @ - 1]

(* The new timer expires before the pop timer, or no pop timer is running. *)
Idle == wheel.next_expire_time = wheel.last_runtime

(* Mutant: the wheel may be idle. *)
MExpiresFirst_NotIdle(expire) == seqno_lt(expire, wheel.next_expire_time)

ExpiresFirst(expire) == seqno_lt(expire, wheel.next_expire_time) \/ Idle

(* __xdp2_timer_add, which xdp2_timer_add and xdp2_timer_add_not_running   *)
(* call.                                                                   *)
timer_add(t, delay, not_running) ==
  LET expire == Plus(now, IF delay = 0 THEN 1 ELSE delay)
      i == expire % NumSlots
      w1 == IF timer[t].timer_set THEN timer_remove_locked(wheel, t)
            ELSE wheel
      w2 == [w1 EXCEPT !.slots[i] = @ \cup {t},
                       !.slot_bitmap = @ \cup {i}, !.timer_count = @ + 1]
      w3 == [w2 EXCEPT !.last_runtime = IF Idle THEN now ELSE @,
                       !.next_expire_time = expire]
  IN IF timer[t].timer_set /\ not_running
       THEN UNCHANGED <<timer, wheel, pop, thread>>
       ELSE /\ timer' = [timer EXCEPT ![t] = [timer_set |-> TRUE, index |-> i,
                                              gen |-> expire \div NumSlots]]
            /\ wheel' = IF ExpiresFirst(expire) THEN w3 ELSE w2
            /\ IF ExpiresFirst(expire) THEN set_next_timer_pop(w3)
               ELSE UNCHANGED <<pop, thread>>

(* xdp2_timer_remove; it returns wheel.running. *)
timer_remove(t) ==
  /\ timer' = [timer EXCEPT ![t] = NotSet]
  /\ wheel' = IF timer[t].timer_set THEN timer_remove_locked(wheel, t)
              ELSE wheel
  /\ UNCHANGED <<pop, thread>>

-----------------------------------------------------------------------------
(* The application, which may be faster than the timer thread it created.  *)
(* It frees a timer by the rules of timer.h: at once if remove returned    *)
(* false, otherwise it adds the timer with delay 0 and frees it in the     *)
(* callback.  It does not use a timer it has freed.                        *)
App(t) ==
  /\ MutexFree
  /\ \/ /\ life[t] = "live"
        /\ \E d \in Delays : \/ "add" \in app.ops /\ timer_add(t, d, FALSE)
                             \/ "add_not_running" \in app.ops
                                  /\ timer_add(t, d, TRUE)
        /\ UNCHANGED life
     \/ /\ "remove" \in app.ops
        /\ life[t] = "live"
        /\ timer_remove(t)
        /\ UNCHANGED life
     \/ /\ "destroy" \in app.ops
        /\ life[t] = "live"
        /\ timer_remove(t)
        /\ life' = [life EXCEPT ![t] = IF wheel.running THEN "closing"
                                       ELSE "freed"]
     \/ /\ life[t] = "closing"
        /\ timer_add(t, 0, FALSE)
        /\ life' = [life EXCEPT ![t] = "dying"]
     \/ /\ life[t] = "freed"
        /\ life' = [life EXCEPT ![t] = "live"]
        /\ UNCHANGED <<timer, wheel, pop, thread>>
  /\ UNCHANGED <<now, run>>

(* The callback of an expired timer: nothing, a periodic timer that adds   *)
(* itself, or a timer that removes itself and is freed.                    *)
Callback(t) ==
  /\ run.pc = "callbacks"
  /\ t \in run.cbs
  /\ run' = [run EXCEPT !.cbs = @ \ {t}]
  /\ \/ /\ life[t] # "dying"
        /\ UNCHANGED <<timer, life, wheel, pop, thread>>
     \/ /\ life[t] # "dying"
        /\ \E d \in Delays : timer_add(t, d, FALSE)
        /\ UNCHANGED life
     \/ /\ \/ life[t] = "dying"
           \/ life[t] = "live" /\ "destroy" \in app.ops
        /\ timer_remove(t)
        /\ life' = [life EXCEPT ![t] = "freed"]
  /\ UNCHANGED now

-----------------------------------------------------------------------------
(* Mutant: skipped generations are handled like the next one.              *)
MStartScan_NoSkip(w) ==
  LET new_gen == Plus(now, 1) \div NumSlots
      old_gen == w.last_runtime \div NumSlots
      same == old_gen = new_gen
  IN [pc |-> "sweep", current_time |-> now, old_gen |-> old_gen,
      new_gen |-> new_gen,
      gen |-> IF same THEN new_gen ELSE new_gen - 1,
      index |-> w.last_runtime % NumSlots,
      limit |-> IF same THEN Plus(now, 1) % NumSlots ELSE NumSlots,
      cbs |-> {}]

(* __xdp2_run_timer_wheel_locked up to its first loop, at time now.  The   *)
(* scan covers the slots index .. limit - 1 for generations up to gen; one *)
(* of an older generation is followed by one of new_gen.                   *)
StartScan(w) ==
  LET old_gen == w.last_runtime \div NumSlots
      new_gen == Plus(now, 1) \div NumSlots
      index == w.last_runtime % NumSlots
      scan == [pc |-> "sweep", current_time |-> now, old_gen |-> old_gen,
               new_gen |-> new_gen, gen |-> new_gen - 1, index |-> index,
               limit |-> NumSlots, cbs |-> {}]
  IN CASE old_gen = new_gen ->
            [scan EXCEPT !.gen = new_gen, !.limit = Plus(now, 1) % NumSlots]
       [] old_gen + 1 = new_gen -> scan
       [] OTHER -> [scan EXCEPT !.index = 0]

(* Mutant: running is not set. *)
MStartRun_NotRunning(w) == wheel' = w /\ run' = StartScan(w)

(* A run begins, or tells the one that is scanning to run again. *)
StartRun(w) ==
  IF w.running
    THEN wheel' = [w EXCEPT !.run_again = TRUE] /\ UNCHANGED run
    ELSE wheel' = [w EXCEPT !.running = TRUE] /\ run' = StartScan(w)

(* The slots the scan has still to look at. *)
Ahead == {i \in wheel.slot_bitmap : run.index <= i /\ i < run.limit}

First(S) == CHOOSE i \in S : \A j \in S : i <= j

(* Mutants: the generation is not looked at; only the very generation of   *)
(* the scan expires.                                                       *)
MExpired_AnyGen(t) == TRUE
MExpired_SameGen(t) == timer[t].gen = run.gen

Expired(t) ==
  ~ seqno_gt((timer[t].gen * NumSlots) % TimeMod,
             (run.gen * NumSlots) % TimeMod)

(* "Found timer in wheel with old generation": the assertion stops the     *)
(* program.                                                                *)
OldGeneration(t) ==
  seqno_lt((timer[t].gen * NumSlots) % TimeMod,
           (run.old_gen * NumSlots) % TimeMod)

(* run_slot up to its callbacks.  After a full batch it starts again with  *)
(* the same slot, and only a pass that ends without one clears the bit.    *)
(* A timer of an old generation may be in the list behind a full batch.    *)
run_slot ==
  LET i == First(Ahead)
      old == {t \in wheel.slots[i] : OldGeneration(t)}
      due == {t \in wheel.slots[i] \ old : Expired(t)}
      full == Cardinality(due) >= BatchSize
  IN /\ run.pc = "sweep"
     /\ Ahead # {}
     /\ \/ \E batch \in SUBSET due :
             LET rest == wheel.slots[i] \ batch
             IN /\ full \/ old = {}
                /\ IF full THEN Cardinality(batch) = BatchSize ELSE batch = due
                /\ timer' = [t \in Timers |-> IF t \in batch THEN NotSet
                                             ELSE timer[t]]
                /\ wheel' = [wheel EXCEPT !.slots[i] = rest,
                               !.timer_count = @ - Cardinality(batch),
                               !.slot_bitmap = IF ~ full /\ rest = {}
                                                 THEN @ \ {i} ELSE @]
                /\ run' = [run EXCEPT !.index = IF full THEN i ELSE i + 1,
                               !.cbs = batch,
                               !.pc = IF batch = {} THEN "sweep"
                                      ELSE "callbacks"]
        \/ /\ old # {}
           /\ run' = [run EXCEPT !.pc = "aborted"]
           /\ UNCHANGED <<timer, wheel>>
     /\ UNCHANGED <<now, life, pop, thread>>

(* All callbacks of the batch are made: lock the mutex and go on. *)
Relock ==
  /\ run.pc = "callbacks"
  /\ run.cbs = {}
  /\ run' = [run EXCEPT !.pc = "sweep"]
  /\ UNCHANGED <<now, timer, life, wheel, pop, thread>>

(* The older generations are done: scan the current one from slot 0. *)
NextScan ==
  /\ run.pc = "sweep" /\ Ahead = {} /\ run.gen # run.new_gen
  /\ run' = [run EXCEPT !.gen = run.new_gen, !.index = 0,
                        !.limit = Plus(run.current_time, 1) % NumSlots]
  /\ UNCHANGED <<now, timer, life, wheel, pop, thread>>

(* The end of the run: find the next slot with timers in this generation   *)
(* or in the next, ask for a run at its time, and run again if another     *)
(* thread asked for it.  The timer thread goes back to its timed wait.     *)
FinishRun ==
  LET last_index == Plus(run.current_time, 1) % NumSlots
      later == {i \in wheel.slot_bitmap : i >= last_index}
      next == IF later # {} THEN run.new_gen * NumSlots + First(later)
              ELSE (run.new_gen + 1) * NumSlots + First(wheel.slot_bitmap)
      found == wheel.slot_bitmap # {}
      w == [wheel EXCEPT !.last_runtime = run.current_time, !.running = FALSE,
                         !.run_again = FALSE,
                         !.next_expire_time = IF found THEN next % TimeMod
                                              ELSE @]
  IN /\ run.pc = "sweep" /\ Ahead = {} /\ run.gen = run.new_gen
     /\ IF wheel.run_again
          THEN StartRun(w)
          ELSE wheel' = w /\ run' = NoRun
     /\ IF UseTimerThread /\ ~ wheel.run_again
          THEN /\ thread' = [thread EXCEPT !.pc = "wait",
                                           !.ts = w.next_expire_time]
               /\ UNCHANGED pop
          ELSE IF found THEN set_next_timer_pop(w)
               ELSE UNCHANGED <<pop, thread>>
     /\ UNCHANGED <<now, timer, life>>

-----------------------------------------------------------------------------
(* xdp2_run_timer_wheel, called by the application when the pop is due, or *)
(* from an interval timer of its own.                                      *)
Gap == (now - wheel.last_runtime) % TimeMod

run_timer_wheel ==
  /\ ~ UseTimerThread
  /\ MutexFree
  /\ \/ pop # NoTime /\ ~ seqno_lt(now, pop) /\ pop' = NoTime
     \/ app.driver = "anytime" /\ Gap <= app.max_gap /\ UNCHANGED pop
  /\ StartRun(wheel)
  /\ UNCHANGED <<now, timer, life, thread>>

(* timer_thread: its start, its timed wait ending in a timeout, and ending *)
(* by a signal or for no reason, after which it waits for the latest time. *)
thread_start ==
  /\ thread.pc = "start"
  /\ wheel' = [wheel EXCEPT !.last_runtime = now,
                            !.next_expire_time = Plus(now, 1)]
  /\ thread' = [thread EXCEPT !.pc = "wait", !.ts = Plus(now, 1)]
  /\ UNCHANGED <<now, timer, life, run, pop>>

thread_timeout ==
  LET w == [wheel EXCEPT !.next_expire_time = Plus(now, TenSeconds)]
  IN /\ thread.pc = "wait"
     /\ MutexFree
     /\ ~ seqno_lt(now, thread.ts)
     /\ StartRun(w)
     /\ thread' = [pc |-> IF wheel.running THEN "wait" ELSE "run",
                   ts |-> w.next_expire_time, signalled |-> FALSE]
     /\ UNCHANGED <<now, timer, life, pop>>

thread_signalled ==
  /\ thread.pc = "wait"
  /\ MutexFree
  /\ thread' = [thread EXCEPT !.ts = wheel.next_expire_time,
                              !.signalled = FALSE]
  /\ UNCHANGED <<now, timer, life, wheel, run, pop>>

(* Time passes, but no more than max_gap from last_runtime (0 until the    *)
(* timer thread starts) unless nothing waits for a run: the comparisons of *)
(* times need less than half of TimeMod.                                   *)
Tick ==
  /\ \/ run.pc = "aborted"
     \/ Idle /\ run.pc = "none"
     \/ Gap < app.max_gap
  /\ app.driver = "punctual" => /\ run.pc = "none"
                                /\ pop # NoTime => seqno_lt(now, pop)
  /\ now' = Plus(now, 1)
  /\ UNCHANGED <<timer, life, wheel, run, pop, thread>>

(* What is due when the timer thread starts and sets last_runtime to the   *)
(* current time, until it fires or is changed.                             *)
Remember ==
  missed' = IF thread.pc = "start" /\ thread'.pc # "start"
              THEN {t \in Timers : /\ timer[t].timer_set
                                   /\ ~ seqno_gt(expire_time(t), now)}
              ELSE {t \in missed : timer'[t] = timer[t]}

Scan == run_slot \/ Relock \/ NextScan \/ FinishRun

Next ==
  /\ \/ \E t \in Timers : App(t) \/ Callback(t)
     \/ Scan
     \/ run_timer_wheel
     \/ thread_start
     \/ thread_timeout
     \/ thread_signalled
     \/ Tick
  /\ Remember
  /\ UNCHANGED app

Spec == Init /\ [][Next]_vars

Step(A) == A /\ Remember /\ UNCHANGED app

(* Time goes on, callbacks return, and the timer thread runs when its wait *)
(* is over.                                                                *)
Fairness ==
  /\ WF_vars(Step(Tick))
  /\ WF_vars(Step(Scan))
  /\ \A t \in Timers : WF_vars(Step(Callback(t)))
  /\ WF_vars(Step(thread_start))
  /\ WF_vars(Step(thread_timeout))
  /\ WF_vars(Step(thread.signalled /\ thread_signalled))

FairSpec == Spec /\ Fairness

-----------------------------------------------------------------------------
(* Times stay below the wrap, slots and counts within the wheel, and the   *)
(* locals of a scan within what its loops over the slots allow.            *)
TypeOK ==
  /\ app \in Apps
  /\ now \in Times
  /\ timer \in [Timers -> [timer_set : BOOLEAN, gen : Times, index : Slots]]
  /\ life \in [Timers -> {"live", "closing", "dying", "freed"}]
  /\ wheel \in [slots : [Slots -> SUBSET Timers], slot_bitmap : SUBSET Slots,
                next_expire_time : Times, last_runtime : Times,
                timer_count : 0 .. Cardinality(Timers), running : BOOLEAN,
                run_again : BOOLEAN]
  /\ run \in [pc : {"none", "sweep", "callbacks", "aborted"},
              current_time : Times, old_gen : Times, new_gen : Times,
              gen : -1 .. TimeMod, index : 0 .. NumSlots,
              limit : 0 .. NumSlots, cbs : SUBSET Timers]
  /\ pop \in Times \cup {NoTime}
  /\ thread \in [pc : {"none", "start", "wait", "run"}, ts : Times,
                 signalled : BOOLEAN]
  /\ missed \subseteq Timers

(* A timer is in the list of its slot exactly if timer_set is true, and in *)
(* no other list; timer_count counts the timers in the wheel; the bit of a *)
(* slot is set exactly if the slot has timers, except that a run may yet   *)
(* have to clear the bit of the slot it is at.                             *)
WheelConsistent ==
  /\ TypeOK
  /\ \A t \in Timers, i \in Slots :
       t \in wheel.slots[i] <=> timer[t].timer_set /\ timer[t].index = i
  /\ wheel.timer_count = Cardinality({t \in Timers : timer[t].timer_set})
  /\ \A i \in Slots :
       \/ wheel.slots[i] # {} <=> i \in wheel.slot_bitmap
       \/ i \in wheel.slot_bitmap /\ run.pc # "none" /\ run.index = i

(* No timer is left behind by a run: the timers in the wheel expire after  *)
(* last_runtime, which the assertion of run_slot relies on.  The exception *)
(* are timers that were added and came due before the timer thread ran:    *)
(* its start sets last_runtime past them, and only then can the assertion  *)
(* fail.                                                                   *)
NothingOverdue ==
  /\ run.pc = "aborted" => missed # {}
  /\ \A t \in Timers :
       timer[t].timer_set /\ t \notin missed =>
         seqno_gt(expire_time(t), wheel.last_runtime)

(* No timer fires before its time, whichever generations a run skipped. *)
NeverEarly ==
  [][\A t \in Timers :
       t \in run'.cbs /\ t \notin run.cbs => ~ seqno_gt(expire_time(t), now)]_vars

(* While the timer thread waits, next_expire_time is after the last run    *)
(* (which it asserts) and no timer expires before it, but those that were  *)
(* due before the thread started; the thread waits for that time or has a  *)
(* signal to look at it.                                                   *)
ThreadWaitsForFirst ==
  thread.pc = "wait" =>
    /\ seqno_gt(wheel.next_expire_time, wheel.last_runtime)
    /\ thread.ts = wheel.next_expire_time \/ thread.signalled
    /\ \A t \in Timers : timer[t].timer_set /\ t \notin missed =>
         ~ seqno_lt(expire_time(t), wheel.next_expire_time)

(* When no run is in progress the application has been asked to run the    *)
(* wheel no later than its first timer expires ("the set_next_timer_pop    *)
(* callback to indicate the next time that the timer wheel should be run").*)
PopSet ==
  run.pc = "none" =>
    \A t \in Timers : timer[t].timer_set =>
      pop # NoTime /\ ~ seqno_lt(expire_time(t), pop)

(* The same for an application that always runs the wheel punctually. *)
PunctualPopSet == app.driver = "punctual" => PopSet

(* A timer that was freed by the rules 1 to 3 of timer.h is in no slot and *)
(* no callback for it is still to come.                                    *)
FreedQuiet ==
  \A t \in Timers :
    life[t] = "freed" => ~ timer[t].timer_set /\ t \notin run.cbs

(* With a timer thread and an application that does not add a timer that   *)
(* is set, every timer fires or is removed, unless the assertion of        *)
(* run_slot stops the program because of a timer that was due before the   *)
(* thread started.                                                         *)
TimerFires ==
  \A t \in Timers :
    UseTimerThread /\ "add" \notin app.ops /\ timer[t].timer_set
      ~> ~ timer[t].timer_set \/ (run.pc = "aborted" /\ missed # {})
=============================================================================
