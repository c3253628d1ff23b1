----------------------------- MODULE TimerProofs -----------------------------
(***************************************************************************)
(* Proofs about Timer, for any number of timers and slots, any batch size  *)
(* and any application.                                                    *)
(***************************************************************************)
EXTENDS Timer, TLAPS, FiniteSetTheorems, NaturalsInduction, WellFoundedInduction

TimerRecs == [timer_set : BOOLEAN, gen : Times, index : Slots]

WheelRecs ==
  [slots : [Slots -> SUBSET Timers], slot_bitmap : SUBSET Slots,
   next_expire_time : Times, last_runtime : Times,
   timer_count : 0 .. Cardinality(Timers), running : BOOLEAN,
   run_again : BOOLEAN]

(* The wheel w and the timers tm agree, but for bits of empty slots in     *)
(* late.                                                                   *)
Agree(w, tm, late) ==
  /\ w \in WheelRecs
  /\ tm \in [Timers -> TimerRecs]
  /\ \A t \in Timers, i \in Slots :
       t \in w.slots[i] <=> tm[t].timer_set /\ tm[t].index = i
  /\ w.timer_count = Cardinality({t \in Timers : tm[t].timer_set})
  /\ \A i \in Slots :
       \/ w.slots[i] # {} <=> i \in w.slot_bitmap
       \/ i \in w.slot_bitmap /\ i \in late

(* The slot whose bit the run in progress may yet have to clear: it will   *)
(* look at that slot again.                                                *)
Late == {i \in Slots : run.pc # "none" /\ run.index = i /\ i < run.limit}

RunRecs == [pc : {"none", "sweep", "callbacks", "aborted"},
            current_time : Times, old_gen : Times, new_gen : Times,
            gen : -1 .. TimeMod, index : 0 .. NumSlots,
            limit : 0 .. NumSlots, cbs : SUBSET Timers]

ThreadRecs == [pc : {"none", "start", "wait", "run"}, ts : Times,
               signalled : BOOLEAN]

RunOK ==
  /\ run \in RunRecs
  /\ wheel.running <=> run.pc # "none"
  /\ run.pc # "callbacks" => run.cbs = {}

RestOK ==
  /\ app \in Apps
  /\ now \in Times
  /\ life \in [Timers -> {"live", "closing", "dying", "freed"}]

PopOK == pop \in Times \cup {NoTime} /\ thread \in ThreadRecs

MissedOK == missed \subseteq Timers

(* The inductive invariant, with MissedOK, on which nothing depends. *)
Inv ==
  /\ RestOK
  /\ PopOK
  /\ RunOK
  /\ Agree(wheel, timer, Late)
  /\ FreedQuiet

(* Inv is WheelConsistent and FreedQuiet, with what a run knows besides. *)
LEMMA InvImplies == Inv /\ MissedOK => WheelConsistent /\ FreedQuiet
<1> SUFFICES ASSUME Inv, MissedOK PROVE WheelConsistent
  BY DEF Inv
<1>1. TypeOK
  BY DEF Inv, MissedOK, RestOK, PopOK, RunOK, Agree, TypeOK, WheelRecs,
         TimerRecs, RunRecs, ThreadRecs
<1>2. ASSUME NEW i \in Slots
      PROVE  \/ wheel.slots[i] # {} <=> i \in wheel.slot_bitmap
             \/ i \in wheel.slot_bitmap /\ run.pc # "none" /\ run.index = i
  BY DEF Inv, Agree, Late
<1> QED BY <1>1, <1>2 DEF Inv, Agree, WheelConsistent

-----------------------------------------------------------------------------
(* Arithmetic of times: the generation of a time ... *)
LEMMA Quotient ==
  ASSUME NEW n \in Nat \ {0}, NEW x \in Nat
  PROVE  x \div n \in Nat /\ x \div n <= x
<1>1. PICK q \in Int : q = x \div n
  OBVIOUS
<1>2. n * q <= x /\ x < n * (q + 1)
  BY <1>1, SMTT(20)
<1>3. 0 <= q
  <2>1. CASE q + 1 <= 0
    <3>1. n * (q + 1) <= 0
      BY <2>1, SMTT(20)
    <3> QED BY <1>2, <3>1
  <2> QED BY <2>1
<1>4. q <= n * q
  BY <1>3, SMTT(20)
<1> QED BY <1>1, <1>2, <1>3, <1>4

(* ... and what else is computed from times is a time or a slot. *)
LEMMA TimeTypes ==
  /\ \A x \in Int : x % TimeMod \in Times
  /\ \A x \in Times : x % NumSlots \in Slots /\ x \div NumSlots \in Times
  /\ \A x \in Times, d \in Nat : Plus(x, d) \in Times
<1>0. NumSlots \in Nat \ {0} /\ TimeMod \in Nat \ {0}
  BY TimerAssumption
<1>1. \A x \in Int : x % TimeMod \in Times
  BY <1>0 DEF Times
<1>2. ASSUME NEW x \in Times PROVE x % NumSlots \in Slots
  BY <1>0 DEF Times, Slots
<1>3. ASSUME NEW x \in Times PROVE x \div NumSlots \in Times
  <2>1. x \in Nat /\ x < TimeMod
    BY <1>0 DEF Times
  <2>2. x \div NumSlots \in Nat /\ x \div NumSlots <= x
    BY <1>0, <2>1, Quotient
  <2> QED BY <1>0, <2>1, <2>2 DEF Times
<1>4. ASSUME NEW x \in Times, NEW d \in Nat PROVE Plus(x, d) \in Times
  <2>1. x + d \in Int
    BY <1>0 DEF Times
  <2> QED BY <1>1, <2>1 DEF Plus
<1> QED BY <1>1, <1>2, <1>3, <1>4

(* A set of slots that is not empty has a first one. *)
LEMMA FirstSlot ==
  ASSUME NEW S \in SUBSET Slots, S # {}
  PROVE  First(S) \in S /\ \A j \in S : First(S) <= j
<1>1. \E i \in S : \A j \in S : i <= j
  <2>1. S \subseteq Nat
    BY TimerAssumption DEF Slots
  <2>2. IsWellFoundedOn(OpToRel(<, Nat), Nat)
    BY Zenon, NatLessThanWellFounded
  <2>3. PICK i \in S : \A j \in S : ~ (<<j, i>> \in OpToRel(<, Nat))
    BY Zenon, <2>1, <2>2, WFMin
  <2>4. \A j \in S : ~ (j < i)
    BY Zenon, <2>1, <2>3 DEF OpToRel
  <2> QED BY <2>1, <2>4
<1> QED BY <1>1 DEF First

(* Counting timers. *)
LEMMA Counting ==
  ASSUME NEW S \in SUBSET Timers
  PROVE  /\ Cardinality(S) \in 0 .. Cardinality(Timers)
         /\ \A t \in Timers \ S : Cardinality(S \cup {t}) = Cardinality(S) + 1
         /\ \A B \in SUBSET S :
              Cardinality(S \ B) = Cardinality(S) - Cardinality(B)
<1>1. IsFiniteSet(Timers)
  BY TimerAssumption
<1>2. IsFiniteSet(S) /\ Cardinality(S) <= Cardinality(Timers)
  BY <1>1, FS_Subset
<1>3. Cardinality(S) \in Nat /\ Cardinality(Timers) \in Nat
  BY <1>1, <1>2, FS_CardinalityType
<1>4. ASSUME NEW t \in Timers \ S
      PROVE  Cardinality(S \cup {t}) = Cardinality(S) + 1
  BY <1>2, FS_AddElement
<1>5. ASSUME NEW B \in SUBSET S
      PROVE  Cardinality(S \ B) = Cardinality(S) - Cardinality(B)
  <2>1. S \cap B = B
    OBVIOUS
  <2> QED BY ZenonT(30), <1>2, <2>1, FS_Difference
<1> QED BY <1>2, <1>3, <1>4, <1>5

-----------------------------------------------------------------------------
(* Agreement depends on the lists, the bits, the count and the timers only. *)
LEMMA OtherFields ==
  ASSUME NEW w, NEW v, NEW tm, NEW late, Agree(w, tm, late),
         v \in WheelRecs, v.slots = w.slots, v.slot_bitmap = w.slot_bitmap,
         v.timer_count = w.timer_count
  PROVE  Agree(v, tm, late)
BY DEF Agree

(* A set timer leaves the list of its slot. *)
LEMMA Removed ==
  ASSUME NEW t \in Timers, NEW late, Agree(wheel, timer, late),
         timer[t].timer_set
  PROVE  Agree(timer_remove_locked(wheel, t), [timer EXCEPT ![t] = NotSet],
               late)
<1> DEFINE i == timer[t].index
           w == timer_remove_locked(wheel, t)
           tm == [timer EXCEPT ![t] = NotSet]
           S == {u \in Timers : timer[u].timer_set}
<1>1. timer \in [Timers -> TimerRecs] /\ wheel \in WheelRecs /\ i \in Slots
  BY DEF Agree, TimerRecs
<1>2. /\ w.slots = [wheel.slots EXCEPT ![i] = @ \ {t}]
      /\ w.slot_bitmap = IF wheel.slots[i] = {t} THEN wheel.slot_bitmap \ {i}
                         ELSE wheel.slot_bitmap
      /\ w.timer_count = wheel.timer_count - 1
  BY <1>1 DEF timer_remove_locked, WheelRecs
<1>3. NotSet \in TimerRecs
  BY TimerAssumption DEF NotSet, TimerRecs, Times, Slots
<1>4. tm \in [Timers -> TimerRecs] /\ tm[t] = NotSet
      /\ \A u \in Timers \ {t} : tm[u] = timer[u]
  BY <1>1, <1>3
<1>5. {u \in Timers : tm[u].timer_set} = S \ {t}
  BY <1>4 DEF NotSet
<1>6. S \in SUBSET Timers /\ {t} \in SUBSET S
  OBVIOUS
<1>7. Cardinality(S \ {t}) = Cardinality(S) - 1
  BY ZenonT(30), <1>6, Counting, FS_Singleton
<1>8. w.timer_count = Cardinality({u \in Timers : tm[u].timer_set})
  BY Zenon, <1>2, <1>5, <1>7 DEF Agree
<1>9. w.timer_count \in 0 .. Cardinality(Timers)
  BY <1>5, <1>6, <1>8, Counting
<1>10. w \in WheelRecs
  <2>1. w.slots \in [Slots -> SUBSET Timers] /\ w.slot_bitmap \in SUBSET Slots
    BY <1>1, <1>2 DEF WheelRecs
  <2>2. w = [wheel EXCEPT !.slots = w.slots, !.slot_bitmap = w.slot_bitmap,
                          !.timer_count = w.timer_count]
    BY <1>1, <1>2 DEF timer_remove_locked, WheelRecs
  <2> HIDE DEF w
  <2> QED BY Zenon, <1>1, <1>9, <2>1, <2>2 DEF WheelRecs
<1>11. \A j \in Slots : w.slots[j] = IF j = i THEN wheel.slots[i] \ {t}
                                     ELSE wheel.slots[j]
  BY <1>1, <1>2 DEF WheelRecs
<1>12. ASSUME NEW u \in Timers, NEW j \in Slots
       PROVE  u \in w.slots[j] <=> tm[u].timer_set /\ tm[u].index = j
  <2>1. u \in wheel.slots[j] <=> timer[u].timer_set /\ timer[u].index = j
    BY DEF Agree
  <2> HIDE DEF w, tm
  <2>2. CASE u = t
    BY SMTT(30), <2>1, <2>2, <1>4, <1>11 DEF NotSet
  <2>3. CASE u # t
    BY <2>1, <2>3, <1>4, <1>11
  <2> QED BY <2>2, <2>3
<1>13. ASSUME NEW j \in Slots
       PROVE  \/ w.slots[j] # {} <=> j \in w.slot_bitmap
              \/ j \in w.slot_bitmap /\ j \in late
  <2>1. \/ wheel.slots[j] # {} <=> j \in wheel.slot_bitmap
        \/ j \in wheel.slot_bitmap /\ j \in late
    BY DEF Agree
  <2>2. t \in wheel.slots[i]
    BY SMTT(30), <1>1 DEF Agree
  <2> HIDE DEF w
  <2>3. CASE j = i
    BY SMTT(30), <2>1, <2>2, <2>3, <1>2, <1>11
  <2>4. CASE j # i
    BY SMTT(30), <2>1, <2>4, <1>2, <1>11
  <2> QED BY <2>3, <2>4
<1> HIDE DEF w, tm
<1> QED BY <1>4, <1>8, <1>10, <1>12, <1>13 DEF Agree, w, tm

(* The wheel with timer t put into the list of slot i. *)
LinkIn(w, t, i) ==
  [w EXCEPT !.slots[i] = @ \cup {t}, !.slot_bitmap = @ \cup {i},
            !.timer_count = @ + 1]

(* A timer that is not set goes into the list of its slot. *)
LEMMA Linked ==
  ASSUME NEW t \in Timers, NEW late, NEW w, NEW tm, Agree(w, tm, late),
         ~ tm[t].timer_set, NEW i \in Slots, NEW g \in Times
  PROVE  Agree(LinkIn(w, t, i),
               [tm EXCEPT ![t] = [timer_set |-> TRUE, index |-> i, gen |-> g]],
               late)
<1> DEFINE new == [timer_set |-> TRUE, index |-> i, gen |-> g]
           v == LinkIn(w, t, i)
           tn == [tm EXCEPT ![t] = new]
           S == {u \in Timers : tm[u].timer_set}
<1>1. tm \in [Timers -> TimerRecs] /\ w \in WheelRecs
  BY DEF Agree
<1>2. /\ v.slots = [w.slots EXCEPT ![i] = @ \cup {t}]
      /\ v.slot_bitmap = w.slot_bitmap \cup {i}
      /\ v.timer_count = w.timer_count + 1
  BY <1>1 DEF LinkIn, WheelRecs
<1>3. new \in TimerRecs
  BY DEF TimerRecs
<1>4. tn \in [Timers -> TimerRecs] /\ tn[t] = new
      /\ \A u \in Timers \ {t} : tn[u] = tm[u]
  BY <1>1, <1>3
<1>5. {u \in Timers : tn[u].timer_set} = S \cup {t}
  BY <1>4
<1>6. S \in SUBSET Timers /\ t \in Timers \ S
  BY SMTT(30)
<1>7. v.timer_count = Cardinality({u \in Timers : tn[u].timer_set})
  BY SMTT(30), <1>2, <1>5, <1>6, Counting DEF Agree
<1>8. v.timer_count \in 0 .. Cardinality(Timers)
  <2>1. S \cup {t} \in SUBSET Timers
    OBVIOUS
  <2> QED BY <1>5, <1>7, <2>1, Counting
<1>9. v \in WheelRecs
  <2>1. v.slots \in [Slots -> SUBSET Timers] /\ v.slot_bitmap \in SUBSET Slots
    BY <1>1, <1>2 DEF WheelRecs
  <2>2. v = [w EXCEPT !.slots = v.slots, !.slot_bitmap = v.slot_bitmap,
                      !.timer_count = v.timer_count]
    BY <1>1, <1>2 DEF LinkIn, WheelRecs
  <2> HIDE DEF v
  <2> QED BY Zenon, <1>1, <1>8, <2>1, <2>2 DEF WheelRecs
<1>10. \A j \in Slots : v.slots[j] = IF j = i THEN w.slots[i] \cup {t}
                                     ELSE w.slots[j]
  BY <1>1, <1>2 DEF WheelRecs
<1>11. ASSUME NEW u \in Timers, NEW j \in Slots
       PROVE  u \in v.slots[j] <=> tn[u].timer_set /\ tn[u].index = j
  <2>1. u \in w.slots[j] <=> tm[u].timer_set /\ tm[u].index = j
    BY DEF Agree
  <2> HIDE DEF v, tn
  <2>2. CASE u = t
    BY SMTT(30), <2>1, <2>2, <1>4, <1>10
  <2>3. CASE u # t
    BY SMTT(30), <2>1, <2>3, <1>4, <1>10
  <2> QED BY <2>2, <2>3
<1>12. ASSUME NEW j \in Slots
       PROVE  \/ v.slots[j] # {} <=> j \in v.slot_bitmap
              \/ j \in v.slot_bitmap /\ j \in late
  <2>1. \/ w.slots[j] # {} <=> j \in w.slot_bitmap
        \/ j \in w.slot_bitmap /\ j \in late
    BY DEF Agree
  <2> HIDE DEF v
  <2> QED BY <2>1, <1>2, <1>10
<1> HIDE DEF v, tn, new
<1> QED BY <1>4, <1>7, <1>9, <1>11, <1>12 DEF Agree, v, tn, new

(* xdp2_timer_add and xdp2_timer_remove keep the wheel in order, and       *)
(* touch no other timer.                                                   *)
LEMMA AddOK ==
  ASSUME NEW t \in Timers, NEW d \in Nat, NEW nr \in BOOLEAN, NEW late,
         Agree(wheel, timer, late), PopOK, now \in Times, timer_add(t, d, nr)
  PROVE  /\ Agree(wheel', timer', late)
         /\ PopOK'
         /\ wheel'.running = wheel.running
         /\ \A u \in Timers \ {t} : timer'[u] = timer[u]
<1> DEFINE expire == Plus(now, IF d = 0 THEN 1 ELSE d)
           i == expire % NumSlots
           g == expire \div NumSlots
           new == [timer_set |-> TRUE, index |-> i, gen |-> g]
           w1 == IF timer[t].timer_set THEN timer_remove_locked(wheel, t)
                 ELSE wheel
           w2 == LinkIn(w1, t, i)
           w3 == [w2 EXCEPT !.last_runtime = IF Idle THEN now ELSE @,
                            !.next_expire_time = expire]
           tm1 == IF timer[t].timer_set THEN [timer EXCEPT ![t] = NotSet]
                  ELSE timer
<1>1. expire \in Times /\ i \in Slots /\ g \in Times
  BY TimeTypes
<1>2. timer \in [Timers -> TimerRecs] /\ wheel \in WheelRecs
  BY DEF Agree
<1>3. CASE timer[t].timer_set /\ nr
  BY <1>3 DEF timer_add, PopOK
<1>4. CASE ~ (timer[t].timer_set /\ nr)
  <2>1. /\ timer' = [timer EXCEPT ![t] = new]
        /\ wheel' = IF ExpiresFirst(expire) THEN w3 ELSE w2
        /\ IF ExpiresFirst(expire) THEN set_next_timer_pop(w3)
           ELSE UNCHANGED <<pop, thread>>
    BY <1>4 DEF timer_add, LinkIn
  <2> HIDE DEF expire, i, g
  <2>2. Agree(w1, tm1, late) /\ w1.running = wheel.running
    <3>1. CASE timer[t].timer_set
      BY Zenon, <3>1, <1>2, Removed DEF timer_remove_locked, WheelRecs
    <3>2. CASE ~ timer[t].timer_set
      BY <3>2
    <3> QED BY <3>1, <3>2
  <2>3. ~ tm1[t].timer_set
    BY <1>2 DEF NotSet
  <2>4. [tm1 EXCEPT ![t] = new] = timer'
    BY ZenonT(30), <1>2, <2>1
  <2>5. w1 \in WheelRecs
    BY <2>2 DEF Agree
  <2> HIDE DEF w1, tm1
  <2>6. Agree(w2, timer', late)
    BY <1>1, <2>2, <2>3, <2>4, Linked
  <2>7. w2.running = wheel.running /\ w2 \in WheelRecs
    BY Zenon, <2>2, <2>5, <2>6 DEF LinkIn, WheelRecs, Agree
  <2> HIDE DEF w2
  <2>8. /\ w3 \in WheelRecs /\ w3.running = wheel.running
        /\ w3.slots = w2.slots /\ w3.slot_bitmap = w2.slot_bitmap
        /\ w3.timer_count = w2.timer_count /\ w3.next_expire_time = expire
    BY ZenonT(30), <1>1, <2>7 DEF WheelRecs
  <2> HIDE DEF w3
  <2>9. Agree(w3, timer', late)
    BY <2>6, <2>8, OtherFields
  <2>10. PopOK'
    BY ZenonT(30), <1>1, <2>1, <2>8 DEF PopOK, set_next_timer_pop, ThreadRecs
  <2>11. \A u \in Timers \ {t} : timer'[u] = timer[u]
    BY <1>2, <2>1
  <2> QED BY SMTT(30), <2>1, <2>6, <2>7, <2>8, <2>9, <2>10, <2>11
<1> QED BY <1>3, <1>4

(* Removing a timer, set or not, keeps it too. *)
LEMMA RemoveOK ==
  ASSUME NEW t \in Timers, NEW late, Agree(wheel, timer, late), PopOK,
         timer_remove(t)
  PROVE  /\ Agree(wheel', timer', late)
         /\ PopOK'
         /\ wheel'.running = wheel.running
         /\ ~ timer'[t].timer_set
         /\ \A u \in Timers \ {t} : timer'[u] = timer[u]
<1>1. timer \in [Timers -> TimerRecs] /\ wheel \in WheelRecs
  BY DEF Agree
<1>2. /\ timer' = [timer EXCEPT ![t] = NotSet]
      /\ PopOK'
  BY DEF timer_remove, PopOK
<1>3. /\ ~ timer'[t].timer_set
      /\ \A u \in Timers \ {t} : timer'[u] = timer[u]
  BY <1>1, <1>2 DEF NotSet
<1>4. CASE timer[t].timer_set
  <2>1. wheel' = timer_remove_locked(wheel, t)
    BY <1>4 DEF timer_remove
  <2>2. wheel'.running = wheel.running
    BY <1>1, <2>1 DEF timer_remove_locked, WheelRecs
  <2> QED BY ZenonT(30), <1>2, <1>3, <1>4, <2>1, <2>2, Removed
<1>5. CASE ~ timer[t].timer_set
  <2>1. wheel' = wheel
    BY <1>5 DEF timer_remove
  <2>2. NotSet \in TimerRecs
    BY TimerAssumption DEF NotSet, TimerRecs, Times, Slots
  <2>3. timer' \in [Timers -> TimerRecs]
    BY SMTT(30), <1>1, <1>2, <2>2
  <2>4. \A u \in Timers : timer'[u].timer_set <=> timer[u].timer_set
    BY <1>3, <1>5
  <2>5. {u \in Timers : timer'[u].timer_set} = {u \in Timers : timer[u].timer_set}
    BY <2>4
  <2>6. \A u \in Timers, j \in Slots :
          u \in wheel.slots[j] <=> timer'[u].timer_set /\ timer'[u].index = j
    BY <1>3, <1>5 DEF Agree
  <2> QED BY ZenonT(30), <1>2, <1>3, <2>1, <2>3, <2>5, <2>6 DEF Agree
<1> QED BY <1>4, <1>5

-----------------------------------------------------------------------------
(* A run that has nothing ahead of it has left no bit to clear. *)
LEMMA NothingLate ==
  ASSUME Agree(wheel, timer, Late), RunOK,
         run.pc = "none" \/ (run.pc = "sweep" /\ Ahead = {})
  PROVE  \A late : Agree(wheel, timer, late)
<1>1. ASSUME NEW i \in Slots
      PROVE  wheel.slots[i] # {} <=> i \in wheel.slot_bitmap
  <2>1. CASE i \in wheel.slot_bitmap /\ i \in Late
    <3>1. i \in Ahead
      BY <2>1 DEF Late, Ahead, Slots
    <3> QED BY <2>1, <3>1 DEF Late
  <2> QED BY <2>1 DEF Agree
<1> QED BY <1>1 DEF Agree

(* The locals of a run that begins. *)
LEMMA ScanType ==
  ASSUME NEW w, w.last_runtime \in Times, now \in Times
  PROVE  /\ StartScan(w) \in RunRecs
         /\ StartScan(w).pc = "sweep" /\ StartScan(w).cbs = {}
<1> DEFINE new_gen == Plus(now, 1) \div NumSlots
           old_gen == w.last_runtime \div NumSlots
           index == w.last_runtime % NumSlots
           limit == Plus(now, 1) % NumSlots
<1>1. /\ new_gen \in Times /\ old_gen \in Times
      /\ index \in Slots /\ limit \in Slots
  BY TimeTypes
<1>2. /\ new_gen \in -1 .. TimeMod /\ new_gen - 1 \in -1 .. TimeMod
      /\ index \in 0 .. NumSlots /\ limit \in 0 .. NumSlots
      /\ NumSlots \in 0 .. NumSlots /\ 0 \in 0 .. NumSlots
  BY <1>1, TimerAssumption DEF Times, Slots
<1> DEFINE scan == [pc |-> "sweep", current_time |-> now, old_gen |-> old_gen,
                    new_gen |-> new_gen, gen |-> new_gen - 1, index |-> index,
                    limit |-> NumSlots, cbs |-> {}]
<1>3. StartScan(w) \in {[scan EXCEPT !.gen = new_gen, !.limit = limit], scan,
                        [scan EXCEPT !.index = 0]}
  BY DEF StartScan
<1> HIDE DEF new_gen, old_gen, index, limit
<1>4. scan \in RunRecs
  BY <1>1, <1>2 DEF RunRecs
<1>5. [scan EXCEPT !.gen = new_gen, !.limit = limit] \in RunRecs
  BY Zenon, <1>1, <1>2 DEF RunRecs
<1>6. [scan EXCEPT !.index = 0] \in RunRecs
  BY <1>1, <1>2 DEF RunRecs
<1>7. /\ scan.pc = "sweep" /\ scan.cbs = {}
      /\ [scan EXCEPT !.index = 0].pc = "sweep"
      /\ [scan EXCEPT !.index = 0].cbs = {}
      /\ [scan EXCEPT !.gen = new_gen, !.limit = limit].pc = "sweep"
      /\ [scan EXCEPT !.gen = new_gen, !.limit = limit].cbs = {}
  OBVIOUS
<1> HIDE DEF scan
<1> QED BY ZenonT(30), <1>3, <1>4, <1>5, <1>6, <1>7

(* What a run begins with, whether or not another one is in progress. *)
LEMMA StartOK ==
  ASSUME NEW w, Agree(w, timer, Late), RunOK, now \in Times,
         ~ w.running => \A late : Agree(w, timer, late),
         w.running => run.pc # "none", StartRun(w)
  PROVE  /\ Agree(wheel', timer, Late')
         /\ RunOK'
         /\ w.running => run' = run
         /\ ~ w.running => run'.cbs = {}
<1>1. w \in WheelRecs
  BY DEF Agree
<1>2. CASE w.running
  <2>1. wheel' = [w EXCEPT !.run_again = TRUE] /\ run' = run
    BY <1>2 DEF StartRun
  <2>2. /\ wheel' \in WheelRecs /\ wheel'.slots = w.slots
        /\ wheel'.slot_bitmap = w.slot_bitmap
        /\ wheel'.timer_count = w.timer_count /\ wheel'.running = w.running
    BY Zenon, <1>1, <2>1 DEF WheelRecs
  <2>3. Late' = Late
    BY <2>1 DEF Late
  <2>4. Agree(wheel', timer, Late)
    BY <2>2, OtherFields
  <2> QED BY <1>2, <2>1, <2>2, <2>3, <2>4 DEF RunOK
<1>3. CASE ~ w.running
  <2>1. wheel' = [w EXCEPT !.running = TRUE] /\ run' = StartScan(w)
    BY <1>3 DEF StartRun
  <2>2. /\ wheel' \in WheelRecs /\ wheel'.slots = w.slots
        /\ wheel'.slot_bitmap = w.slot_bitmap
        /\ wheel'.timer_count = w.timer_count /\ wheel'.running = TRUE
    BY Zenon, <1>1, <2>1 DEF WheelRecs
  <2>3. run' \in RunRecs /\ run'.pc = "sweep" /\ run'.cbs = {}
    BY <1>1, <2>1, ScanType DEF WheelRecs
  <2>4. Agree(w, timer, Late')
    BY <1>3
  <2>5. Agree(wheel', timer, Late')
    BY <2>2, <2>4, OtherFields
  <2> QED BY <1>3, <2>2, <2>3, <2>5 DEF RunOK
<1> QED BY <1>2, <1>3

-----------------------------------------------------------------------------
(* The actions.  A call of the application. *)
LEMMA AppInv ==
  ASSUME Inv, NEW t \in Timers, App(t), UNCHANGED app
  PROVE  Inv'
<1>1. /\ now' = now /\ run' = run /\ Late' = Late
      /\ life \in [Timers -> {"live", "closing", "dying", "freed"}]
  BY DEF App, Late, Inv, RestOK
<1>2. \A d \in Delays : d \in Nat
  BY TimerAssumption
<1>3. ASSUME NEW d \in Nat, NEW nr \in BOOLEAN, timer_add(t, d, nr),
             life[t] # "freed",
             \/ life' = life
             \/ life' = [life EXCEPT ![t] = "dying"]
      PROVE  Inv'
  <2>1. /\ Agree(wheel', timer', Late) /\ PopOK'
        /\ wheel'.running = wheel.running
        /\ \A u \in Timers \ {t} : timer'[u] = timer[u]
    BY <1>3, AddOK DEF Inv, RestOK
  <2>2. RestOK'
    BY <1>1, <1>3 DEF Inv, RestOK
  <2>3. RunOK'
    BY SMTT(30), <1>1, <2>1 DEF Inv, RunOK
  <2>4. FreedQuiet'
    BY SMTT(30), <1>1, <1>3, <2>1 DEF Inv, FreedQuiet
  <2> QED BY SMTT(30), <1>1, <2>1, <2>2, <2>3, <2>4 DEF Inv
<1>4. ASSUME timer_remove(t), \/ life' = life
                              \/ life' = [life EXCEPT ![t] = "closing"]
                              \/ /\ life' = [life EXCEPT ![t] = "freed"]
                                 /\ ~ wheel.running
      PROVE  Inv'
  <2>1. /\ Agree(wheel', timer', Late) /\ PopOK'
        /\ wheel'.running = wheel.running
        /\ ~ timer'[t].timer_set
        /\ \A u \in Timers \ {t} : timer'[u] = timer[u]
    BY <1>4, RemoveOK DEF Inv
  <2>2. RestOK'
    BY SMTT(30), <1>1, <1>4 DEF Inv, RestOK
  <2>3. RunOK'
    BY SMTT(30), <1>1, <2>1 DEF Inv, RunOK
  <2>4. ~ wheel.running => run.cbs = {}
    BY DEF Inv, RunOK
  <2>5. FreedQuiet'
    BY <1>1, <1>4, <2>1, <2>4 DEF Inv, FreedQuiet
  <2> QED BY SMTT(30), <1>1, <2>1, <2>2, <2>3, <2>5 DEF Inv
<1>5. ASSUME life[t] = "freed", life' = [life EXCEPT ![t] = "live"],
             UNCHANGED <<timer, wheel, pop, thread>>
      PROVE  Inv'
  <2>1. RestOK' /\ PopOK' /\ RunOK' /\ Agree(wheel', timer', Late')
    BY <1>1, <1>5 DEF Inv, RestOK, PopOK, RunOK
  <2>2. FreedQuiet'
    BY <1>1, <1>5 DEF Inv, FreedQuiet
  <2> QED BY <2>1, <2>2 DEF Inv
<1>6. CASE life[t] = "live" /\ UNCHANGED life
           /\ \E d \in Delays : timer_add(t, d, FALSE) \/ timer_add(t, d, TRUE)
  BY Zenon, <1>2, <1>3, <1>6
<1>7. CASE timer_remove(t) /\ UNCHANGED life
  BY <1>4, <1>7
<1>8. CASE timer_remove(t)
           /\ life' = [life EXCEPT ![t] = IF wheel.running THEN "closing"
                                          ELSE "freed"]
  BY Zenon, <1>4, <1>8
<1>9. CASE life[t] = "closing" /\ timer_add(t, 0, FALSE)
           /\ life' = [life EXCEPT ![t] = "dying"]
  BY Zenon, <1>3, <1>9
<1> QED BY ZenonT(30), <1>5, <1>6, <1>7, <1>8, <1>9 DEF App

(* A callback. *)
LEMMA CallbackInv ==
  ASSUME Inv, NEW t \in Timers, Callback(t), UNCHANGED app
  PROVE  Inv'
<1>1. /\ run.pc = "callbacks" /\ t \in run.cbs /\ now' = now
      /\ run' = [run EXCEPT !.cbs = @ \ {t}]
      /\ run \in RunRecs
  BY DEF Callback, Inv, RunOK
<1>2. /\ run' \in RunRecs /\ run'.pc = "callbacks" /\ run'.cbs = run.cbs \ {t}
      /\ run'.index = run.index /\ run'.limit = run.limit
  BY <1>1 DEF RunRecs
<1>3. Late' = Late
  BY <1>1, <1>2 DEF Late
<1>4. life[t] # "freed" /\ life \in [Timers -> {"live", "closing", "dying", "freed"}]
  BY <1>1 DEF Inv, FreedQuiet, RestOK
<1>5. RunOK' <=> wheel'.running
  BY <1>2 DEF RunOK
<1>6. wheel.running
  BY <1>1 DEF Inv, RunOK
<1>7. CASE UNCHANGED <<timer, life, wheel, pop, thread>>
  <2>1. RestOK' /\ PopOK' /\ RunOK' /\ Agree(wheel', timer', Late')
    BY SMTT(30), <1>1, <1>3, <1>5, <1>6, <1>7 DEF Inv, RestOK, PopOK
  <2>2. FreedQuiet'
    BY <1>2, <1>7 DEF Inv, FreedQuiet
  <2> QED BY <2>1, <2>2 DEF Inv
<1>8. ASSUME NEW d \in Delays, timer_add(t, d, FALSE), UNCHANGED life
      PROVE  Inv'
  <2>1. d \in Nat
    BY TimerAssumption
  <2>2. /\ Agree(wheel', timer', Late) /\ PopOK'
        /\ wheel'.running = wheel.running
        /\ \A u \in Timers \ {t} : timer'[u] = timer[u]
    BY Zenon, <1>8, <2>1, AddOK DEF Inv, RestOK
  <2>3. RestOK' /\ RunOK'
    BY SMTT(30), <1>1, <1>5, <1>6, <1>8, <2>2 DEF Inv, RestOK
  <2>4. FreedQuiet'
    BY SMTT(30), <1>2, <1>4, <1>8, <2>2 DEF Inv, FreedQuiet
  <2> QED BY <1>3, <2>2, <2>3, <2>4 DEF Inv
<1>9. CASE timer_remove(t) /\ life' = [life EXCEPT ![t] = "freed"]
  <2>1. /\ Agree(wheel', timer', Late) /\ PopOK'
        /\ wheel'.running = wheel.running
        /\ ~ timer'[t].timer_set
        /\ \A u \in Timers \ {t} : timer'[u] = timer[u]
    BY <1>9, RemoveOK DEF Inv
  <2>2. RestOK' /\ RunOK'
    BY SMTT(30), <1>1, <1>5, <1>6, <1>9, <2>1 DEF Inv, RestOK
  <2>3. FreedQuiet'
    BY <1>2, <1>4, <1>9, <2>1 DEF Inv, FreedQuiet
  <2> QED BY SMTT(30), <1>3, <2>1, <2>2, <2>3 DEF Inv
<1> QED BY Zenon, <1>7, <1>8, <1>9 DEF Callback

(* A slot: the batch that expires leaves the list, and if the run will     *)
(* look at the slot again its bit is left alone.                           *)
LEMMA BatchInv ==
  ASSUME Inv, run_slot, run'.pc # "aborted", UNCHANGED app
  PROVE  Inv'
<1> DEFINE i == First(Ahead)
           old == {t \in wheel.slots[i] : OldGeneration(t)}
           due == {t \in wheel.slots[i] \ old : Expired(t)}
           full == Cardinality(due) >= BatchSize
<1>1. /\ timer \in [Timers -> TimerRecs] /\ wheel \in WheelRecs
      /\ run \in RunRecs /\ run.pc = "sweep" /\ Ahead # {}
      /\ wheel.running /\ run.cbs = {}
  BY ZenonT(30) DEF Inv, Agree, RunOK, run_slot
<1>2. Ahead \in SUBSET Slots
  BY <1>1 DEF Ahead, WheelRecs
<1>3. i \in Ahead /\ \A j \in Ahead : i <= j
  BY SMTT(30), <1>1, <1>2, FirstSlot
<1>4. /\ i \in Slots /\ i \in wheel.slot_bitmap /\ run.index <= i
      /\ i < run.limit
  BY <1>2, <1>3 DEF Ahead
<1>5. PICK batch \in SUBSET due :
        /\ IF full THEN Cardinality(batch) = BatchSize ELSE batch = due
        /\ timer' = [t \in Timers |-> IF t \in batch THEN NotSet ELSE timer[t]]
        /\ wheel' = [wheel EXCEPT !.slots[i] = wheel.slots[i] \ batch,
                       !.timer_count = @ - Cardinality(batch),
                       !.slot_bitmap = IF ~ full /\ wheel.slots[i] \ batch = {}
                                       THEN @ \ {i} ELSE @]
        /\ run' = [run EXCEPT !.index = IF full THEN i ELSE i + 1,
                       !.cbs = batch,
                       !.pc = IF batch = {} THEN "sweep" ELSE "callbacks"]
  <2>1. run' # [run EXCEPT !.pc = "aborted"]
    BY SMTT(30), <1>1 DEF RunRecs
  <2> QED BY Zenon, <2>1 DEF run_slot
<1>6. UNCHANGED <<now, life, pop, thread>>
  BY ZenonT(30) DEF run_slot
<1>7. batch \in SUBSET wheel.slots[i] /\ wheel.slots[i] \in SUBSET Timers
  BY <1>1, <1>4 DEF WheelRecs
<1> HIDE DEF i, old, due, full
<1>8. /\ wheel'.slots = [wheel.slots EXCEPT ![i] = @ \ batch]
      /\ wheel'.timer_count = wheel.timer_count - Cardinality(batch)
      /\ wheel'.slot_bitmap = IF ~ full /\ wheel.slots[i] \ batch = {}
                              THEN wheel.slot_bitmap \ {i} ELSE wheel.slot_bitmap
      /\ wheel'.running = wheel.running
  BY Zenon, <1>1, <1>5 DEF WheelRecs
<1>9. \A t \in Timers : timer'[t] = IF t \in batch THEN NotSet ELSE timer[t]
  BY SMTT(30), <1>5
<1>10. \A t \in batch : t \in Timers /\ timer[t].timer_set /\ timer[t].index = i
  BY SMTT(30), <1>4, <1>7 DEF Inv, Agree
<1> DEFINE S == {t \in Timers : timer[t].timer_set}
<1>11. {t \in Timers : timer'[t].timer_set} = S \ batch
  BY <1>9 DEF NotSet
<1>12. S \in SUBSET Timers /\ batch \in SUBSET S /\ S \ batch \in SUBSET Timers
  BY <1>10
<1>13. wheel'.timer_count = Cardinality({t \in Timers : timer'[t].timer_set})
  <2>1. wheel.timer_count = Cardinality(S)
    BY DEF Inv, Agree
  <2> HIDE DEF S
  <2> QED BY SMTT(30), <1>8, <1>11, <1>12, <2>1, Counting
<1>14. wheel'.timer_count \in 0 .. Cardinality(Timers)
  BY <1>11, <1>12, <1>13, Counting
<1>15. wheel' \in WheelRecs
  <2>1. /\ wheel'.slots \in [Slots -> SUBSET Timers]
        /\ wheel'.slot_bitmap \in SUBSET Slots
    BY ZenonT(30), <1>1, <1>7, <1>8 DEF WheelRecs
  <2>2. wheel' = [wheel EXCEPT !.slots = wheel'.slots,
                               !.slot_bitmap = wheel'.slot_bitmap,
                               !.timer_count = wheel'.timer_count]
    BY ZenonT(30), <1>1, <1>5, <1>8 DEF WheelRecs
  <2> QED BY ZenonT(30), <1>1, <1>14, <2>1, <2>2 DEF WheelRecs
<1>16. timer' \in [Timers -> TimerRecs]
  <2>1. NotSet \in TimerRecs
    BY SMTT(30), TimerAssumption DEF NotSet, TimerRecs, Times, Slots
  <2> QED BY SMTT(30), <1>1, <1>5, <2>1
<1>17. \A j \in Slots : wheel'.slots[j] = IF j = i THEN wheel.slots[i] \ batch
                                          ELSE wheel.slots[j]
  BY SMTT(30), <1>1, <1>8 DEF WheelRecs
<1>18. ASSUME NEW u \in Timers, NEW j \in Slots
       PROVE  u \in wheel'.slots[j] <=> timer'[u].timer_set /\ timer'[u].index = j
  <2>1. u \in wheel.slots[j] <=> timer[u].timer_set /\ timer[u].index = j
    BY DEF Inv, Agree
  <2>2. CASE u \in batch
    BY SMTT(30), <2>1, <2>2, <1>9, <1>10, <1>17 DEF NotSet
  <2>3. CASE u \notin batch
    BY SMTT(30), <2>1, <2>3, <1>9, <1>17
  <2> QED BY SMTT(30), <2>2, <2>3
<1>19. /\ run'.index = (IF full THEN i ELSE i + 1) /\ run'.cbs = batch
       /\ run'.pc = (IF batch = {} THEN "sweep" ELSE "callbacks")
       /\ run'.limit = run.limit
  BY <1>1, <1>5 DEF RunRecs
<1>20. run' \in RunRecs
  <2>1. i \in 0 .. NumSlots /\ i + 1 \in 0 .. NumSlots
    BY <1>4, TimerAssumption DEF Slots
  <2> QED BY ZenonT(30), <1>1, <1>5, <1>7, <2>1 DEF RunRecs
<1>21. ASSUME NEW j \in Slots
       PROVE  \/ wheel'.slots[j] # {} <=> j \in wheel'.slot_bitmap
              \/ j \in wheel'.slot_bitmap /\ j \in Late'
  <2>1. CASE j = i /\ full
    BY SMTT(30), <1>4, <1>8, <1>19, <2>1 DEF Late
  <2>2. CASE j = i /\ ~ full
    BY SMTT(30), <1>4, <1>8, <1>17, <2>2
  <2>3. CASE j # i
    <3>1. ~ (j \in wheel.slot_bitmap /\ j \in Late)
      <4>1. ASSUME j \in wheel.slot_bitmap, j \in Late PROVE j \in Ahead /\ j <= i
        BY SMTT(30), <1>4, <4>1 DEF Late, Ahead, Slots
      <4> QED BY SMTT(30), <1>3, <1>4, <2>3, <4>1 DEF Slots
    <3>2. wheel.slots[j] # {} <=> j \in wheel.slot_bitmap
      BY SMTT(30), <3>1 DEF Inv, Agree
    <3> QED BY SMTT(30), <1>8, <1>17, <2>3, <3>2
  <2> QED BY SMTT(30), <2>1, <2>2, <2>3
<1>22. Agree(wheel', timer', Late')
  BY SMTT(30), <1>13, <1>15, <1>16, <1>18, <1>21 DEF Agree
<1>23. RunOK'
  BY SMTT(30), <1>1, <1>8, <1>19, <1>20 DEF RunOK
<1>24. FreedQuiet'
  BY SMTT(30), <1>6, <1>9, <1>10, <1>19 DEF Inv, FreedQuiet
<1>25. RestOK' /\ PopOK'
  BY <1>6 DEF Inv, RestOK, PopOK
<1> QED BY SMTT(30), <1>22, <1>23, <1>24, <1>25 DEF Inv

(* A slot with a timer of an old generation: the program stops. *)
LEMMA RunSlotInv ==
  ASSUME Inv, run_slot, UNCHANGED app
  PROVE  Inv'
<1>1. CASE run'.pc = "aborted"
  <2>1. /\ run \in RunRecs /\ run.pc = "sweep" /\ run.cbs = {}
        /\ UNCHANGED <<now, life, pop, thread>>
    BY ZenonT(30) DEF Inv, RunOK, run_slot
  <2>2. run' = [run EXCEPT !.pc = "aborted"] /\ UNCHANGED <<timer, wheel>>
    <3> DEFINE i == First(Ahead)
               old == {t \in wheel.slots[i] : OldGeneration(t)}
               due == {t \in wheel.slots[i] \ old : Expired(t)}
               full == Cardinality(due) >= BatchSize
    <3>1. ASSUME NEW batch,
                 run' = [run EXCEPT !.index = IF full THEN i ELSE i + 1,
                            !.cbs = batch,
                            !.pc = IF batch = {} THEN "sweep" ELSE "callbacks"]
          PROVE  FALSE
      <4> HIDE DEF full, i
      <4> QED BY <1>1, <2>1, <3>1 DEF RunRecs
    <3> QED BY Zenon, <3>1 DEF run_slot
  <2>3. /\ run' \in RunRecs /\ run'.cbs = {}
        /\ run'.index = run.index /\ run'.limit = run.limit
    BY <2>1, <2>2 DEF RunRecs
  <2>4. Late' = Late
    BY <1>1, <2>1, <2>3 DEF Late
  <2>5. RunOK' /\ FreedQuiet'
    BY <1>1, <2>1, <2>2, <2>3 DEF Inv, RunOK, FreedQuiet
  <2> QED BY SMTT(30), <2>1, <2>2, <2>4, <2>5 DEF Inv, RestOK, PopOK
<1> QED BY <1>1, BatchInv

(* The steps of a run between and after the slots. *)
LEMMA ScanInv ==
  ASSUME Inv, Relock \/ NextScan \/ FinishRun, UNCHANGED app
  PROVE  Inv'
<1>1. /\ run \in RunRecs /\ wheel \in WheelRecs /\ now \in Times
      /\ wheel.running <=> run.pc # "none"
  BY DEF Inv, RunOK, RestOK, Agree
<1>2. CASE Relock
  <2>1. /\ run' = [run EXCEPT !.pc = "sweep"] /\ run.pc = "callbacks"
        /\ run.cbs = {} /\ UNCHANGED <<now, timer, life, wheel, pop, thread>>
    BY <1>2 DEF Relock
  <2>2. /\ run' \in RunRecs /\ run'.pc = "sweep" /\ run'.cbs = {}
        /\ run'.index = run.index /\ run'.limit = run.limit
    BY <1>1, <2>1 DEF RunRecs
  <2>3. Late' = Late
    BY <2>1, <2>2 DEF Late
  <2>4. RunOK' /\ FreedQuiet'
    BY <1>1, <2>1, <2>2 DEF Inv, RunOK, FreedQuiet
  <2> QED BY <2>1, <2>3, <2>4 DEF Inv, RestOK, PopOK
<1>3. CASE NextScan
  <2>1. /\ run.pc = "sweep" /\ Ahead = {}
        /\ run' = [run EXCEPT !.gen = run.new_gen, !.index = 0,
                              !.limit = Plus(run.current_time, 1) % NumSlots]
        /\ UNCHANGED <<now, timer, life, wheel, pop, thread>>
    BY <1>3 DEF NextScan
  <2>2. run.current_time \in Times
    BY <1>1 DEF RunRecs
  <2>3. Plus(run.current_time, 1) % NumSlots \in Slots
    BY <2>2, TimeTypes
  <2>4. run.new_gen \in -1 .. TimeMod /\ 0 \in 0 .. NumSlots
        /\ Plus(run.current_time, 1) % NumSlots \in 0 .. NumSlots
    BY <1>1, <2>3, TimerAssumption DEF RunRecs, Times, Slots
  <2>5. run' \in RunRecs /\ run'.pc = "sweep" /\ run'.cbs = run.cbs
    BY Zenon, <1>1, <2>1, <2>4 DEF RunRecs
  <2>6. Agree(wheel', timer', Late')
    <3>1. \A late : Agree(wheel, timer, late)
      BY <2>1, NothingLate DEF Inv
    <3> QED BY <2>1, <3>1
  <2>7. RunOK' /\ FreedQuiet'
    BY <1>1, <2>1, <2>5 DEF Inv, RunOK, FreedQuiet
  <2> QED BY <2>1, <2>6, <2>7 DEF Inv, RestOK, PopOK
<1>4. CASE FinishRun
  <2> DEFINE last_index == Plus(run.current_time, 1) % NumSlots
             later == {j \in wheel.slot_bitmap : j >= last_index}
             next == IF later # {} THEN run.new_gen * NumSlots + First(later)
                     ELSE (run.new_gen + 1) * NumSlots + First(wheel.slot_bitmap)
             found == wheel.slot_bitmap # {}
             w == [wheel EXCEPT !.last_runtime = run.current_time,
                                !.running = FALSE, !.run_again = FALSE,
                                !.next_expire_time = IF found THEN next % TimeMod
                                                     ELSE @]
  <2>1. /\ run.pc = "sweep" /\ Ahead = {} /\ run.cbs = {}
        /\ IF wheel.run_again THEN StartRun(w) ELSE wheel' = w /\ run' = NoRun
        /\ IF UseTimerThread /\ ~ wheel.run_again
             THEN /\ thread' = [thread EXCEPT !.pc = "wait",
                                              !.ts = w.next_expire_time]
                  /\ UNCHANGED pop
             ELSE IF found THEN set_next_timer_pop(w)
                  ELSE UNCHANGED <<pop, thread>>
        /\ UNCHANGED <<now, timer, life>>
    BY <1>4 DEF FinishRun, Inv, RunOK
  <2>2. found => next % TimeMod \in Times
    <3>1. run.new_gen \in Int /\ NumSlots \in Int
      BY <1>1, TimerAssumption DEF RunRecs, Times
    <3>2. later # {} => First(later) \in Int
      <4>1. later \in SUBSET Slots
        BY <1>1 DEF WheelRecs
      <4> HIDE DEF later
      <4>2. later # {} => First(later) \in Slots
        BY <4>1, FirstSlot
      <4> QED BY <4>2 DEF Slots
    <3>3. found => First(wheel.slot_bitmap) \in Int
      BY <1>1, FirstSlot DEF WheelRecs, Slots
    <3> HIDE DEF later
    <3>4. found => next \in Int
      BY <3>1, <3>2, <3>3
    <3> HIDE DEF next
    <3> QED BY <3>4, TimeTypes
  <2> HIDE DEF next, found
  <2>3. /\ w \in WheelRecs /\ w.slots = wheel.slots
        /\ w.slot_bitmap = wheel.slot_bitmap
        /\ w.timer_count = wheel.timer_count /\ w.running = FALSE
        /\ w.next_expire_time \in Times
    BY Zenon, <1>1, <2>2 DEF WheelRecs, RunRecs
  <2> HIDE DEF w
  <2>4. ASSUME NEW late PROVE Agree(w, timer, late)
    BY SMTT(30), <2>1, <2>3, OtherFields, NothingLate DEF Inv
  <2>5. Agree(wheel', timer, Late') /\ RunOK' /\ run'.cbs = {}
    <3>1. CASE wheel.run_again
      BY SMTT(30), <2>1, <2>3, <2>4, <3>1, <1>1, StartOK DEF Inv
    <3>2. CASE ~ wheel.run_again
      <4>1. wheel' = w /\ run' = NoRun
        BY SMTT(30), <2>1, <3>2
      <4>2. NoRun \in RunRecs /\ NoRun.pc = "none" /\ NoRun.cbs = {}
        BY TimerAssumption DEF NoRun, RunRecs, Times
      <4> QED BY <2>3, <2>4, <4>1, <4>2 DEF RunOK
    <3> QED BY <3>1, <3>2
  <2>6. PopOK'
    <3>1. PopOK
      BY DEF Inv
    <3>2. CASE thread' = [thread EXCEPT !.pc = "wait", !.ts = w.next_expire_time]
               /\ UNCHANGED pop
      BY Zenon, <2>3, <3>1, <3>2 DEF PopOK, ThreadRecs
    <3>3. CASE set_next_timer_pop(w)
      BY ZenonT(30), <2>3, <3>1, <3>3 DEF PopOK, ThreadRecs, set_next_timer_pop
    <3>4. CASE UNCHANGED <<pop, thread>>
      BY <3>1, <3>4 DEF PopOK
    <3> QED BY SMTT(30), <2>1, <3>2, <3>3, <3>4
  <2>7. FreedQuiet' /\ RestOK'
    BY <2>1, <2>5 DEF Inv, FreedQuiet, RestOK
  <2> QED BY SMTT(30), <2>1, <2>5, <2>6, <2>7 DEF Inv
<1> QED BY SMTT(30), <1>2, <1>3, <1>4

(* Between two runs no bit is left to clear. *)
LEMMA BetweenRuns ==
  ASSUME Inv, run.pc = "none"
  PROVE  \A late : Agree(wheel, timer, late)
<1>1. Agree(wheel, timer, Late) /\ RunOK
  BY SMTT(30) DEF Inv
<1> QED BY <1>1, NothingLate

(* A run that the application or the timer thread begins. *)
LEMMA StartInv ==
  ASSUME Inv, NEW w, w \in WheelRecs, w.slots = wheel.slots,
         w.slot_bitmap = wheel.slot_bitmap, w.timer_count = wheel.timer_count,
         w.running = wheel.running, StartRun(w), PopOK',
         UNCHANGED <<app, now, timer, life>>
  PROVE  Inv'
<1>1. RunOK /\ now \in Times /\ (wheel.running <=> run.pc # "none")
  BY DEF Inv, RunOK, RestOK
<1>2. Agree(w, timer, Late)
  BY OtherFields DEF Inv
<1>3. ASSUME ~ w.running, NEW late PROVE Agree(w, timer, late)
  <2>1. run.pc = "none"
    BY SMTT(30), <1>1, <1>3
  <2>2. Agree(wheel, timer, late)
    BY SMTT(30), <2>1, BetweenRuns
  <2> QED BY SMTT(30), <2>2, OtherFields
<1>4. /\ Agree(wheel', timer, Late') /\ RunOK'
      /\ w.running => run' = run
      /\ ~ w.running => run'.cbs = {}
  BY SMTT(30), <1>1, <1>2, <1>3, StartOK
<1>5. FreedQuiet' /\ RestOK'
  BY <1>4 DEF Inv, FreedQuiet, RestOK
<1> QED BY SMTT(30), <1>4, <1>5 DEF Inv

(* Both of them. *)
LEMMA RunnersInv ==
  ASSUME Inv, run_timer_wheel \/ thread_timeout, UNCHANGED app
  PROVE  Inv'
<1>1. wheel \in WheelRecs /\ now \in Times /\ PopOK
  BY DEF Inv, Agree, RestOK
<1>2. CASE run_timer_wheel
  <2>1. PopOK' /\ StartRun(wheel) /\ UNCHANGED <<now, timer, life>>
    BY SMTT(30), <1>1, <1>2 DEF run_timer_wheel, PopOK
  <2> QED BY SMTT(30), <1>1, <2>1, StartInv
<1>3. CASE thread_timeout
  <2> DEFINE w == [wheel EXCEPT !.next_expire_time = Plus(now, TenSeconds)]
  <2>1. Plus(now, TenSeconds) \in Times
    BY <1>1, TimeTypes, TimerAssumption
  <2>2. /\ w \in WheelRecs /\ w.slots = wheel.slots
        /\ w.slot_bitmap = wheel.slot_bitmap
        /\ w.timer_count = wheel.timer_count /\ w.running = wheel.running
        /\ w.next_expire_time \in Times
    BY <1>1, <2>1 DEF WheelRecs
  <2>3. /\ StartRun(w) /\ UNCHANGED <<now, timer, life, pop>>
        /\ thread' = [pc |-> IF wheel.running THEN "wait" ELSE "run",
                      ts |-> w.next_expire_time, signalled |-> FALSE]
    BY <1>3 DEF thread_timeout
  <2> HIDE DEF w
  <2>4. PopOK'
    BY <1>1, <2>2, <2>3 DEF PopOK, ThreadRecs
  <2> QED BY SMTT(30), <2>2, <2>3, <2>4, StartInv
<1> QED BY SMTT(30), <1>2, <1>3

(* The other steps of the timer thread, and time. *)
LEMMA QuietInv ==
  ASSUME Inv, thread_start \/ thread_signalled \/ Tick, UNCHANGED app
  PROVE  Inv'
<1>1. wheel \in WheelRecs /\ now \in Times /\ PopOK /\ Plus(now, 1) \in Times
  BY TimeTypes DEF Inv, Agree, RestOK
<1>2. UNCHANGED <<timer, life, run, pop>> /\ Late' = Late
  BY DEF thread_start, thread_signalled, Tick, Late
<1>3. /\ wheel' \in WheelRecs /\ wheel'.slots = wheel.slots
      /\ wheel'.slot_bitmap = wheel.slot_bitmap
      /\ wheel'.timer_count = wheel.timer_count
      /\ wheel'.running = wheel.running
  BY ZenonT(30), <1>1 DEF thread_start, thread_signalled, Tick, WheelRecs
<1>4. PopOK'
  <2>1. wheel.next_expire_time \in Times
    BY <1>1 DEF WheelRecs
  <2> QED BY ZenonT(30), <1>1, <1>2, <2>1
          DEF thread_start, thread_signalled, Tick, PopOK, ThreadRecs
<1>5. RestOK'
  BY <1>1, <1>2 DEF thread_start, thread_signalled, Tick, Inv, RestOK
<1>6. Agree(wheel', timer', Late')
  BY SMTT(30), <1>2, <1>3, OtherFields DEF Inv
<1>7. RunOK' /\ FreedQuiet'
  BY <1>2, <1>3 DEF Inv, RunOK, FreedQuiet
<1> QED BY SMTT(30), <1>4, <1>5, <1>6, <1>7 DEF Inv

(* The wheel as it is initialised. *)
LEMMA InitInv == Init => Inv
<1> SUFFICES ASSUME Init PROVE Inv
  OBVIOUS
<1>0. /\ NumSlots \in Nat \ {0} /\ TimeMod \in Nat \ {0}
      /\ TenSeconds \in Nat /\ IsFiniteSet(Timers)
      /\ StartTimes \subseteq Times
  BY TimerAssumption DEF Times
<1>1. /\ 0 \in Times /\ 0 \in Slots /\ now \in Times
      /\ Plus(now, TenSeconds) \in Times
  <2>1. 0 \in Times /\ 0 \in Slots
    BY SMTT(30), <1>0 DEF Times, Slots
  <2>2. now \in Times
    BY SMTT(30), <1>0 DEF Init
  <2> QED BY SMTT(30), <1>0, <2>1, <2>2, TimeTypes
<1>2. RestOK
  BY SMTT(30), <1>1 DEF Init, RestOK
<1>3. PopOK
  BY SMTT(30), <1>1 DEF Init, PopOK, ThreadRecs
<1>4. RunOK
  BY SMTT(30), <1>0, <1>1 DEF Init, RunOK, NoRun, RunRecs
<1>5. wheel \in WheelRecs /\ wheel.slot_bitmap = {} /\ wheel.timer_count = 0
      /\ wheel.slots = [i \in Slots |-> {}]
  <2>1. 0 \in 0 .. Cardinality(Timers)
    BY SMTT(30), <1>0, FS_CardinalityType
  <2> QED BY <1>1, <2>1 DEF Init, WheelRecs
<1>6. timer \in [Timers -> TimerRecs] /\ \A t \in Timers : timer[t] = NotSet
  BY <1>1 DEF Init, NotSet, TimerRecs
<1>7. {t \in Timers : timer[t].timer_set} = {}
  BY SMTT(30), <1>6 DEF NotSet
<1>8. Agree(wheel, timer, Late)
  BY <1>5, <1>6, <1>7, FS_EmptySet DEF Agree, NotSet
<1>9. FreedQuiet
  BY Zenon DEF Init, FreedQuiet
<1> QED BY <1>2, <1>3, <1>4, <1>8, <1>9 DEF Inv

(* All steps. *)
LEMMA NextInv == Inv /\ [Next]_vars => Inv'
<1> SUFFICES ASSUME Inv, [Next]_vars PROVE Inv'
  BY SMTT(30)
<1>1. CASE UNCHANGED vars
  BY <1>1 DEF vars, Inv, RestOK, PopOK, RunOK, FreedQuiet, Late
<1>2. CASE Next
  <2>1. UNCHANGED app
    BY <1>2 DEF Next
  <2>2. ASSUME NEW t \in Timers, App(t) \/ Callback(t) PROVE Inv'
    BY <2>1, <2>2, AppInv, CallbackInv
  <2>3. CASE Scan
    BY <2>1, <2>3, RunSlotInv, ScanInv DEF Scan
  <2>4. CASE run_timer_wheel \/ thread_timeout
    BY <2>1, <2>4, RunnersInv
  <2>5. CASE thread_start \/ thread_signalled \/ Tick
    BY SMTT(30), <2>1, <2>5, QuietInv
  <2> QED BY SMTT(30), <1>2, <2>2, <2>3, <2>4, <2>5 DEF Next
<1> QED BY <1>1, <1>2

(* The history variable is a set of timers. *)
LEMMA MissedInv ==
  /\ Init => MissedOK
  /\ MissedOK /\ [Next]_vars => MissedOK'
BY DEF Init, Next, vars, Remember, MissedOK

(* Timers, slots, bitmap and count agree, whatever callbacks and other     *)
(* threads add and remove while a run is between two slots.                *)
THEOREM WheelInOrder == Spec => []WheelConsistent
<1>1. Inv /\ MissedOK => WheelConsistent
  BY InvImplies
<1> QED BY <1>1, InitInv, NextInv, MissedInv, PTL DEF Spec

(* A timer that was freed by the rules of timer.h gets no callback. *)
THEOREM FreedTimersQuiet == Spec => []FreedQuiet
<1>1. Inv => FreedQuiet
  BY DEF Inv
<1> QED BY <1>1, InitInv, NextInv, PTL DEF Spec
=============================================================================
