------------------------- MODULE ObjAllocatorProofs -------------------------
(***************************************************************************)
(* The free list of the object allocator is sound for any number of        *)
(* objects and processes, wherever the processes see the objects.          *)
(***************************************************************************)
EXTENDS ObjAllocator, TLAPS

(* Offsets are numbers, and the i-th object is found again by division. *)
LEMMA Multiples ==
  ASSUME NEW i \in Nat
  PROVE  i * ObjSize \in Nat /\ (i * ObjSize) \div ObjSize = i
<1>1. ObjSize \in Nat /\ ObjSize > 0
  BY ObjAssumption
<1>2. i * ObjSize \in Nat
  BY <1>1
<1>3. (i * ObjSize) \div ObjSize = i
  BY <1>1, <1>2, Z3
<1> QED BY <1>2, <1>3

LEMMA ObjsNat ==
  ASSUME NEW o \in Objs
  PROVE  o \in Nat /\ o >= Start
<1>1. PICK i \in 0 .. NumObjs - 1 : o = Start + i * ObjSize
  BY DEF Objs
<1>2. i \in Nat
  BY ObjAssumption
<1>3. i * ObjSize \in Nat
  BY <1>2, Multiples
<1> QED BY <1>1, <1>3, ObjAssumption

(* A stored pointer leads every process to the object at its own address.  *)
LEMMA Pointers ==
  ASSUME NEW p \in Procs, NEW o \in Objs
  PROVE  /\ Stored(o) \in Nat /\ Stored(o) # 0
         /\ translate(p, Stored(o)) = Base[p] + o
         /\ reverse_translate(p, Base[p] + o) = Stored(o)
         /\ (Base[p] + o) - Base[p] = o
<1> DEFINE q == CHOOSE r \in Procs : TRUE
<1>1. q \in Procs
  OBVIOUS
<1>2. Base[p] \in Nat /\ Base[q] \in Nat /\ Start \in Nat
  BY <1>1, ObjAssumption
<1>3. o \in Nat /\ o >= Start
  BY ObjsNat
<1>4. CASE Xlat
  BY <1>2, <1>3, <1>4, ObjAssumption DEF Stored, translate, reverse_translate
<1>5. CASE ~ Xlat
  <2>1. Base[p] = Base[q] /\ Base[q] + Start > 0
    BY <1>1, <1>5, ObjAssumption
  <2> QED BY <1>2, <1>3, <1>5, <2>1 DEF Stored, translate, reverse_translate
<1> QED BY <1>4, <1>5

LEMMA PointersDiffer ==
  ASSUME NEW o \in Objs, NEW r \in Objs, Stored(o) = Stored(r)
  PROVE  o = r
<1>1. PICK p \in Procs : TRUE
  BY ObjAssumption
<1>2. Base[p] + o = Base[p] + r
  BY Pointers
<1>3. Base[p] \in Nat /\ o \in Nat /\ r \in Nat
  BY ObjsNat, ObjAssumption
<1> QED BY <1>2, <1>3

(* The i-th object has the index BaseIndex + i in every process. *)
LEMMA IndexOf ==
  ASSUME NEW p \in Procs, NEW i \in 0 .. NumObjs - 1
  PROVE  /\ Start + i * ObjSize \in Objs
         /\ obj_to_index(p, Base[p] + (Start + i * ObjSize)) = i + BaseIndex
         /\ index_to_obj(p, i + BaseIndex) = Base[p] + (Start + i * ObjSize)
<1> DEFINE o == Start + i * ObjSize
<1>1. o \in Objs
  BY DEF Objs
<1>2. i \in Nat
  BY ObjAssumption
<1>3. i * ObjSize \in Nat /\ (i * ObjSize) \div ObjSize = i
  BY <1>2, Multiples
<1>4. Start \in Objs
  <2>1. 0 \in 0 .. NumObjs - 1 /\ 0 * ObjSize = 0
    BY ObjAssumption
  <2>2. Start + 0 * ObjSize = Start
    BY <2>1, ObjAssumption
  <2> QED BY <2>1, <2>2 DEF Objs
<1>5. base(p) = Base[p] + Start
  BY <1>4, Pointers DEF base
<1>6. Base[p] \in Nat /\ Start \in Nat /\ BaseIndex \in Nat
  BY ObjAssumption
<1>7. obj_to_index(p, Base[p] + o) = i + BaseIndex
  <2>1. (Base[p] + o) - base(p) = i * ObjSize
    BY <1>3, <1>5, <1>6
  <2>2. obj_to_index(p, Base[p] + o)
          = ((Base[p] + o) - base(p)) \div ObjSize + BaseIndex
    BY DEF obj_to_index
  <2>3. ((Base[p] + o) - base(p)) \div ObjSize = i
    BY <1>3, <2>1, Zenon
  <2> QED BY <2>2, <2>3, Zenon
<1>8. (i + BaseIndex) - BaseIndex = i
  BY <1>2, <1>6
<1>9. index_to_obj(p, i + BaseIndex) = (Base[p] + Start) + i * ObjSize
  BY <1>5, <1>8 DEF index_to_obj
<1>10. (Base[p] + Start) + i * ObjSize = Base[p] + o
  BY <1>3, <1>6
<1> QED BY <1>1, <1>7, <1>9, <1>10

(* The index that one process computes leads another to the same object. *)
LEMMA Indices ==
  ASSUME NEW p \in Procs, NEW q \in Procs, NEW o \in Objs
  PROVE  index_to_obj(q, obj_to_index(p, Base[p] + o)) = Base[q] + o
<1>1. PICK i \in 0 .. NumObjs - 1 : o = Start + i * ObjSize
  BY DEF Objs
<1> QED BY <1>1, IndexOf

-----------------------------------------------------------------------------
(* The inductive invariant. *)
Inv == TypeOK /\ NoSharing /\ FreeListSound

LEMMA InitInv == Init => Inv
<1> SUFFICES ASSUME Init PROVE Inv
  OBVIOUS
<1> DEFINE fl == [i \in 1 .. NumObjs |-> Start + (i - 1) * ObjSize]
<1>0. /\ NumObjs \in Nat /\ NumObjs > 0 /\ ObjSize \in Nat /\ ObjSize > 0
      /\ Start \in Nat /\ num_free = NumObjs
  BY ObjAssumption DEF Init
<1>1. fl \in [1 .. num_free -> Objs]
  <2>1. ASSUME NEW i \in 1 .. NumObjs PROVE i - 1 \in 0 .. NumObjs - 1
    BY <1>0
  <2>2. ASSUME NEW i \in 1 .. NumObjs PROVE Start + (i - 1) * ObjSize \in Objs
    BY <2>1 DEF Objs
  <2> QED BY <1>0, <2>2
<1>2. PICK p \in Procs :
        /\ mem = [o \in Objs |->
                    IF o = Start + (NumObjs - 1) * ObjSize THEN 0
                    ELSE reverse_translate(p, Base[p] + o + ObjSize)]
        /\ free_list = reverse_translate(p, Base[p] + Start)
        /\ held = [q \in Procs |-> {}]
  BY DEF Init
<1>3. \A i \in 1 .. NumObjs : fl[i] = Start + (i - 1) * ObjSize
  OBVIOUS
<1> HIDE DEF fl
<1>4. ASSUME NEW i \in 1 .. NumObjs, NEW j \in 1 .. NumObjs, i < j
      PROVE  fl[i] < fl[j]
  <2>1. /\ i - 1 \in Nat /\ j - 1 \in Nat /\ j - i \in Nat /\ j - i > 0
    BY <1>0, <1>4
  <2>2. (j - 1) * ObjSize = (i - 1) * ObjSize + (j - i) * ObjSize
    BY <1>0, <2>1, Z3
  <2>3. (j - i) * ObjSize > 0 /\ (i - 1) * ObjSize \in Nat
    BY <1>0, <2>1, Z3
  <2> QED BY <1>0, <1>3, <2>2, <2>3
<1>5. \A i, j \in 1 .. num_free : i # j => fl[i] # fl[j]
  <2> SUFFICES ASSUME NEW i \in 1 .. NumObjs, NEW j \in 1 .. NumObjs, i # j
               PROVE  fl[i] # fl[j]
    BY <1>0
  <2>1. fl[i] \in Nat /\ fl[j] \in Nat
    BY <1>0, <1>1, ObjsNat
  <2>2. i < j \/ j < i
    BY <1>0
  <2> QED BY <1>4, <2>1, <2>2
<1>6. free_list = Stored(fl[1])
  <2>1. fl[1] = Start /\ fl[1] \in Objs
    BY <1>0, <1>1, <1>3
  <2> QED BY <1>2, <2>1, Pointers
<1>7. ASSUME NEW i \in 1 .. NumObjs
      PROVE  mem[fl[i]] = IF i = NumObjs THEN 0 ELSE Stored(fl[i + 1])
  <2>1. fl[i] \in Objs
    BY <1>0, <1>1
  <2>2. CASE i = NumObjs
    BY <1>2, <1>3, <2>1, <2>2
  <2>3. CASE i # NumObjs
    <3>1. i + 1 \in 1 .. NumObjs /\ NumObjs \in 1 .. NumObjs /\ i < NumObjs
      BY <1>0, <2>3
    <3>2. fl[i] # Start + (NumObjs - 1) * ObjSize
      BY <1>0, <1>3, <1>5, <3>1
    <3>3. fl[i + 1] = fl[i] + ObjSize
      <4>1. ((i + 1) - 1) * ObjSize = (i - 1) * ObjSize + ObjSize
        BY <1>0, Z3
      <4>2. (i - 1) * ObjSize \in Int
        BY <1>0
      <4> QED BY <1>0, <1>3, <3>1, <4>1, <4>2
    <3>4. fl[i + 1] \in Objs
      BY <1>0, <1>1, <3>1
    <3>5. Base[p] + fl[i] + ObjSize = Base[p] + fl[i + 1]
      BY <1>0, <2>1, <3>3, ObjsNat, ObjAssumption
    <3> QED BY <1>2, <2>1, <2>3, <3>2, <3>4, <3>5, Pointers
  <2> QED BY <2>2, <2>3
<1>8. IsFreeList(fl, num_free, free_list, mem)
  BY <1>0, <1>5, <1>6, <1>7 DEF IsFreeList
<1>9. ASSUME NEW o \in Objs
      PROVE  ~ Held(o) /\ \E i \in 1 .. num_free : fl[i] = o
  <2>1. PICK i \in 0 .. NumObjs - 1 : o = Start + i * ObjSize
    BY DEF Objs
  <2>2. i + 1 \in 1 .. NumObjs /\ (i + 1) - 1 = i
    BY <1>0
  <2>3. fl[i + 1] = o
    BY <1>3, <2>1, <2>2
  <2> QED BY <1>0, <1>2, <2>2, <2>3 DEF Held
<1>10. TypeOK
  <2>1. ASSUME NEW o \in Objs PROVE mem[o] \in Nat
    <3>1. PICK i \in 1 .. NumObjs : fl[i] = o
      BY <1>0, <1>9
    <3>2. i # NumObjs => i + 1 \in 1 .. num_free
      BY <1>0
    <3>3. i # NumObjs => fl[i + 1] \in Objs
      BY <1>1, <3>2
    <3> QED BY <1>2, <1>7, <3>1, <3>3, Pointers
  <2>2. mem \in [Objs -> Nat]
    BY <1>2, <2>1
  <2>3. free_list \in Nat
    BY <1>0, <1>1, <1>2, <1>6, Pointers
  <2> QED BY <1>0, <1>2, <2>2, <2>3 DEF TypeOK
<1> QED BY Zenon, <1>1, <1>2, <1>8, <1>9, <1>10 DEF Inv, FreeListSound, NoSharing

-----------------------------------------------------------------------------
(* What a process has is at an offset of an object, and only it has it. *)
LEMMA HeldObjs ==
  ASSUME TypeOK, NoSharing, NEW p \in Procs, NEW a \in held[p]
  PROVE  /\ a - Base[p] \in Objs /\ a \in Nat
         /\ a = Base[p] + (a - Base[p])
         /\ Held(a - Base[p])
<1>1. a \in Nat /\ Base[p] \in Nat
  BY ObjAssumption DEF TypeOK
<1>2. a = Base[p] + (a - Base[p])
  BY <1>1
<1> QED BY <1>1, <1>2 DEF NoSharing, Held

(* What each operation does to the set of objects that are in use. *)
LEMMA AllocHeld ==
  ASSUME Inv, NEW p \in Procs, alloc(p), num_free # 0
  PROVE  \E o \in Objs :
           /\ translate(p, free_list) = Base[p] + o
           /\ ~ Held(o)
           /\ \A r \in Objs : Held(r)' <=> Held(r) \/ r = o
<1>0. TypeOK /\ num_free \in Nat /\ num_free > 0
  BY DEF Inv, TypeOK
<1>1. PICK fl \in [1 .. num_free -> Objs] :
        /\ IsFreeList(fl, num_free, free_list, mem)
        /\ \A o \in Objs : Held(o) <=> \A i \in 1 .. num_free : fl[i] # o
  BY Zenon DEF Inv, FreeListSound
<1> DEFINE o == fl[1]
<1>2. 1 \in 1 .. num_free /\ o \in Objs /\ o \in Nat /\ Base[p] \in Nat
  BY <1>0, <1>1, ObjsNat, ObjAssumption
<1>3. translate(p, free_list) = Base[p] + o
  BY <1>0, <1>1, <1>2, Pointers DEF IsFreeList
<1>4. held' = [held EXCEPT ![p] = @ \cup {Base[p] + o}]
  BY <1>3 DEF alloc
<1>5. ~ Held(o)
  BY <1>1, <1>2
<1>6. ASSUME NEW r \in Objs
      PROVE  Held(r)' <=> Held(r) \/ r = o
  <2>1. r \in Nat
    BY ObjsNat
  <2>2. Base[p] + r = Base[p] + o <=> r = o
    BY <1>2, <2>1
  <2> QED BY <1>0, <1>4, <2>2 DEF Held, TypeOK
<1> QED BY <1>2, <1>3, <1>5, <1>6

LEMMA FreeHeld ==
  ASSUME TypeOK, NoSharing, NEW p \in Procs, NEW o \in Objs,
         Base[p] + o \in held[p],
         held' = [held EXCEPT ![p] = @ \ {Base[p] + o}],
         NEW r \in Objs
  PROVE  Held(r)' <=> Held(r) /\ r # o
<1>1. r \in Nat /\ o \in Nat /\ Base[p] \in Nat
  BY ObjsNat, ObjAssumption
<1>2. Base[p] + r = Base[p] + o <=> r = o
  BY <1>1
<1>3. ASSUME NEW q \in Procs, q # p PROVE Base[q] + o \notin held[q]
  <2>1. Base[q] \in Nat /\ (Base[q] + o) - Base[q] = o /\ (Base[p] + o) - Base[p] = o
    BY <1>1, ObjAssumption
  <2> QED BY <1>3, <2>1 DEF NoSharing
<1>4. Held(r)' <=> \E q \in Procs : Base[q] + r \in held[q] /\ ~ (q = p /\ r = o)
  BY <1>2 DEF Held, TypeOK
<1> QED BY <1>3, <1>4 DEF Held

LEMMA HandOverHeld ==
  ASSUME TypeOK, NEW p \in Procs, NEW q \in Procs, p # q, NEW o \in Objs,
         Base[p] + o \in held[p],
         held' = [held EXCEPT ![p] = @ \ {Base[p] + o},
                              ![q] = @ \cup {Base[q] + o}],
         NEW r \in Objs
  PROVE  Held(r)' <=> Held(r)
<1>1. r \in Nat /\ o \in Nat /\ Base[p] \in Nat /\ Base[q] \in Nat
  BY ObjsNat, ObjAssumption
<1>2. /\ Base[p] + r = Base[p] + o <=> r = o
      /\ Base[q] + r = Base[q] + o <=> r = o
  BY <1>1
<1>3. /\ held'[p] = held[p] \ {Base[p] + o}
      /\ held'[q] = held[q] \cup {Base[q] + o}
      /\ \A s \in Procs : s # p /\ s # q => held'[s] = held[s]
  BY DEF TypeOK
<1>4. CASE r = o
  BY Zenon, <1>3, <1>4 DEF Held
<1>5. CASE r # o
  <2>1. \A s \in Procs : Base[s] + r \in held'[s] <=> Base[s] + r \in held[s]
    BY Zenon, <1>2, <1>3, <1>5
  <2> QED BY Zenon, <2>1 DEF Held
<1> QED BY <1>4, <1>5

LEMMA AllocInv ==
  ASSUME Inv, NEW p \in Procs, alloc(p)
  PROVE  Inv'
<1>1. CASE num_free = 0
  <2>1. UNCHANGED vars
    BY <1>1 DEF alloc
  <2>2. TypeOK' /\ NoSharing'
    BY <2>1 DEF Inv, vars, TypeOK, NoSharing
  <2>3. FreeListSound'
    BY Zenon, <2>1 DEF Inv, vars, FreeListSound, Held
  <2> QED BY <2>2, <2>3 DEF Inv
<1>2. CASE num_free # 0
  <2>0. TypeOK /\ NoSharing /\ num_free \in Nat /\ num_free > 0
    BY <1>2 DEF Inv, TypeOK
  <2>1. PICK fl \in [1 .. num_free -> Objs] :
          /\ IsFreeList(fl, num_free, free_list, mem)
          /\ \A o \in Objs : Held(o) <=> \A i \in 1 .. num_free : fl[i] # o
    BY Zenon DEF Inv, FreeListSound
  <2> DEFINE o == fl[1]
             n == num_free - 1
             gl == [i \in 1 .. n |-> fl[i + 1]]
  <2>2. 1 \in 1 .. num_free /\ o \in Objs /\ o \in Nat /\ Base[p] \in Nat
    BY <2>0, <2>1, ObjsNat, ObjAssumption
  <2>3. /\ translate(p, free_list) = Base[p] + o
        /\ (Base[p] + o) - Base[p] = o
    BY <2>0, <2>1, <2>2, Pointers DEF IsFreeList
  <2>4. /\ free_list' = mem[o]
        /\ num_free' = n
        /\ held' = [held EXCEPT ![p] = @ \cup {Base[p] + o}]
        /\ mem' = mem
    BY <1>2, <2>3 DEF alloc
  <2>5. ~ Held(o)
    BY <2>1, <2>2
  <2>6. n \in Nat /\ gl \in [1 .. n -> Objs]
    BY <2>0, <2>1
  <2>7. \A i \in 1 .. n : /\ i + 1 \in 1 .. num_free /\ gl[i] = fl[i + 1]
                          /\ i \in Nat
    BY <2>0
  <2>8. IsFreeList(gl, n, free_list', mem')
    <3>1. \A i, j \in 1 .. n : i # j => gl[i] # gl[j]
      BY <2>1, <2>7 DEF IsFreeList
    <3>2. free_list' = IF n = 0 THEN 0 ELSE Stored(gl[1])
      <4>1. mem[o] = IF 1 = num_free THEN 0 ELSE Stored(fl[1 + 1])
        BY <2>1, <2>2 DEF IsFreeList
      <4>2. n # 0 => 1 \in 1 .. n
        BY <2>0
      <4> QED BY <2>0, <2>4, <2>7, <4>1, <4>2
    <3>3. ASSUME NEW i \in 1 .. n
          PROVE  mem[gl[i]] = IF i = n THEN 0 ELSE Stored(gl[i + 1])
      <4>1. mem[fl[i + 1]]
              = IF i + 1 = num_free THEN 0 ELSE Stored(fl[(i + 1) + 1])
        BY <2>1, <2>7 DEF IsFreeList
      <4>2. (i + 1 = num_free <=> i = n) /\ (i # n => i + 1 \in 1 .. n)
        BY <2>0
      <4> QED BY <2>7, <4>1, <4>2
    <3> QED BY <2>4, <3>1, <3>2, <3>3 DEF IsFreeList
  <2>9. ASSUME NEW r \in Objs
        PROVE  Held(r)' <=> \A i \in 1 .. n : gl[i] # r
    <3>1. Held(r)' <=> Held(r) \/ r = o
      <4>1. r \in Nat
        BY ObjsNat
      <4>2. Base[p] + r = Base[p] + o <=> r = o
        BY <2>2, <4>1
      <4> QED BY Zenon, <2>0, <2>4, <4>2 DEF Held, TypeOK
    <3>2. (\A i \in 1 .. n : gl[i] # r) <=> (\A i \in 1 .. num_free : fl[i] # r) \/ r = o
      <4>1. ASSUME \A i \in 1 .. n : gl[i] # r, r # o, NEW i \in 1 .. num_free
            PROVE  fl[i] # r
        <5>1. CASE i = 1
          BY <4>1, <5>1
        <5>2. CASE i # 1
          <6>1. i - 1 \in 1 .. n /\ (i - 1) + 1 = i
            BY <2>0, <5>2
          <6> QED BY <2>7, <4>1, <6>1
        <5> QED BY <5>1, <5>2
      <4>2. ASSUME \A i \in 1 .. num_free : fl[i] # r, NEW i \in 1 .. n
            PROVE  gl[i] # r
        BY <2>7, <4>2
      <4>3. ASSUME r = o, NEW i \in 1 .. n
            PROVE  gl[i] # r
        <5>1. i + 1 # 1
          BY <2>7
        <5> QED BY <2>1, <2>2, <2>7, <4>3, <5>1 DEF IsFreeList
      <4> QED BY <4>1, <4>2, <4>3
    <3> QED BY <2>1, <3>1, <3>2
  <2>10. FreeListSound'
    <3> HIDE DEF gl, n
    <3> QED BY <2>4, <2>6, <2>8, <2>9 DEF FreeListSound
  <2>11. TypeOK'
    BY <2>0, <2>2, <2>4, <2>6 DEF TypeOK
  <2>12. NoSharing'
    <3>1. ASSUME NEW q \in Procs, NEW a \in held'[q]
          PROVE  a - Base[q] \in Objs /\ (a \in held[q] \/ (q = p /\ a = Base[p] + o))
      <4>1. a \in held[q] \/ (q = p /\ a = Base[p] + o)
        BY <2>0, <2>4, <3>1 DEF TypeOK
      <4> QED BY <2>0, <2>2, <2>3, <4>1 DEF NoSharing
    <3>2. ASSUME NEW q \in Procs, NEW s \in Procs, q # s,
                 NEW a \in held'[q], NEW b \in held'[s]
          PROVE  a - Base[q] # b - Base[s]
      <4>1. CASE a \in held[q] /\ b \in held[s]
        BY <2>0, <3>2, <4>1 DEF NoSharing
      <4>2. CASE q = p /\ a = Base[p] + o /\ b \in held[s]
        BY <2>0, <2>3, <2>5, <4>2, HeldObjs
      <4>3. CASE s = p /\ b = Base[p] + o /\ a \in held[q]
        BY <2>0, <2>3, <2>5, <4>3, HeldObjs
      <4> QED BY <3>1, <3>2, <4>1, <4>2, <4>3
    <3> QED BY <3>1, <3>2 DEF NoSharing
  <2> QED BY <2>10, <2>11, <2>12 DEF Inv
<1> QED BY <1>1, <1>2

LEMMA FreeInv ==
  ASSUME Inv, NEW p \in Procs, NEW obj \in held[p], free(p, obj)
  PROVE  Inv'
<1>0. TypeOK /\ NoSharing /\ num_free \in Nat
  BY DEF Inv, TypeOK
<1>1. /\ mem' = [mem EXCEPT ![obj - Base[p]] = free_list]
      /\ free_list' = reverse_translate(p, obj)
      /\ num_free' = num_free + 1
      /\ held' = [held EXCEPT ![p] = @ \ {obj}]
  BY DEF free
<1>2. PICK fl \in [1 .. num_free -> Objs] :
        /\ IsFreeList(fl, num_free, free_list, mem)
        /\ \A o \in Objs : Held(o) <=> \A i \in 1 .. num_free : fl[i] # o
  BY Zenon DEF Inv, FreeListSound
<1> DEFINE o == obj - Base[p]
           n == num_free + 1
           gl == [i \in 1 .. n |-> IF i = 1 THEN o ELSE fl[i - 1]]
<1>3. /\ o \in Objs /\ obj \in Nat /\ obj = Base[p] + o /\ Held(o)
      /\ Base[p] \in Nat /\ o \in Nat
  BY <1>0, HeldObjs, ObjsNat, ObjAssumption
<1>4. /\ free_list' = Stored(o) /\ Stored(o) \in Nat
      /\ mem' = [mem EXCEPT ![o] = free_list]
  BY <1>1, <1>3, Pointers
<1>5. \A i \in 1 .. num_free : fl[i] \in Objs /\ fl[i] # o
  BY <1>2, <1>3
<1>6. \A i \in 1 .. n : i # 1 => i - 1 \in 1 .. num_free
  BY <1>0
<1>7. n \in Nat /\ gl \in [1 .. n -> Objs] /\ 1 \in 1 .. n
  <2>1. \A i \in 1 .. n : (IF i = 1 THEN o ELSE fl[i - 1]) \in Objs
    BY <1>3, <1>5, <1>6
  <2> QED BY <1>0, <2>1
<1>8. \A i \in 1 .. n : gl[i] = IF i = 1 THEN o ELSE fl[i - 1]
  OBVIOUS
<1>9. IsFreeList(gl, n, free_list', mem')
  <2>1. ASSUME NEW i \in 1 .. n, NEW j \in 1 .. n, i # j
        PROVE  gl[i] # gl[j]
    <3>1. i # 1 /\ j # 1 => i - 1 # j - 1
      BY <1>0, <2>1
    <3> QED BY <1>2, <1>5, <1>6, <1>8, <2>1, <3>1 DEF IsFreeList
  <2>2. free_list' = IF n = 0 THEN 0 ELSE Stored(gl[1])
    BY <1>0, <1>4, <1>7, <1>8
  <2>3. ASSUME NEW i \in 1 .. n
        PROVE  mem'[gl[i]] = IF i = n THEN 0 ELSE Stored(gl[i + 1])
    <3>1. CASE i = 1
      <4>1. mem'[gl[i]] = free_list
        BY <1>0, <1>3, <1>4, <1>8, <3>1 DEF TypeOK
      <4>2. free_list = IF num_free = 0 THEN 0 ELSE Stored(fl[1])
        BY <1>2 DEF IsFreeList
      <4>3. num_free # 0 => gl[2] = fl[1]
        <5>1. num_free # 0 => 2 \in 1 .. n /\ 2 # 1 /\ 2 - 1 = 1
          BY <1>0
        <5> QED BY <1>8, <5>1
      <4> QED BY <1>0, <3>1, <4>1, <4>2, <4>3
    <3>2. CASE i # 1
      <4>1. i - 1 \in 1 .. num_free /\ gl[i] = fl[i - 1]
        BY <1>6, <1>8, <3>2
      <4>2. mem'[gl[i]] = mem[fl[i - 1]]
        BY <1>0, <1>4, <1>5, <4>1 DEF TypeOK
      <4>3. mem[fl[i - 1]] = IF i - 1 = num_free THEN 0 ELSE Stored(fl[(i - 1) + 1])
        BY <1>2, <4>1 DEF IsFreeList
      <4>4. (i - 1 = num_free <=> i = n) /\ (i - 1) + 1 = i
        BY <1>0
      <4>5. i # n => gl[i + 1] = fl[i]
        <5>1. i # n => i + 1 \in 1 .. n /\ i + 1 # 1 /\ (i + 1) - 1 = i
          BY <1>0
        <5> QED BY <1>8, <5>1
      <4> QED BY <4>2, <4>3, <4>4, <4>5
    <3> QED BY Zenon, <3>1, <3>2
  <2> QED BY <2>1, <2>2, <2>3 DEF IsFreeList
<1>10. ASSUME NEW r \in Objs
       PROVE  Held(r)' <=> \A i \in 1 .. n : gl[i] # r
  <2>1. Held(r)' <=> Held(r) /\ r # o
    BY Zenon, <1>0, <1>1, <1>3, FreeHeld
  <2>2. (\A i \in 1 .. n : gl[i] # r) <=> r # o /\ (\A i \in 1 .. num_free : fl[i] # r)
    <3>1. ASSUME \A i \in 1 .. n : gl[i] # r, NEW i \in 1 .. num_free
          PROVE  fl[i] # r
      <4>1. i + 1 \in 1 .. n /\ i + 1 # 1 /\ (i + 1) - 1 = i
        BY <1>0
      <4> QED BY <1>8, <3>1, <4>1
    <3>2. (\A i \in 1 .. n : gl[i] # r) => r # o
      BY <1>7, <1>8
    <3>3. ASSUME r # o, \A i \in 1 .. num_free : fl[i] # r, NEW i \in 1 .. n
          PROVE  gl[i] # r
      BY <1>6, <1>8, <3>3
    <3> QED BY <3>1, <3>2, <3>3
  <2> QED BY <1>2, <2>1, <2>2
<1>11. FreeListSound'
  <2> HIDE DEF gl, n
  <2>1. num_free' = n
    BY <1>1 DEF n
  <2> QED BY <1>7, <1>9, <1>10, <2>1 DEF FreeListSound
<1>12. TypeOK'
  BY <1>0, <1>1, <1>3, <1>4 DEF TypeOK
<1>13. NoSharing'
  <2>1. \A q \in Procs : held'[q] \subseteq held[q]
    BY <1>0, <1>1 DEF TypeOK
  <2> QED BY <1>0, <2>1 DEF NoSharing
<1> QED BY <1>11, <1>12, <1>13 DEF Inv

LEMMA UseInv ==
  ASSUME Inv, NEW p \in Procs, NEW obj \in held[p], Use(p, obj)
  PROVE  Inv'
<1>0. TypeOK /\ NoSharing
  BY DEF Inv
<1>1. PICK w \in Junk :
        /\ mem' = [mem EXCEPT ![obj - Base[p]] = w]
        /\ UNCHANGED <<free_list, num_free, held>>
  BY Zenon DEF Use
<1>2. PICK fl \in [1 .. num_free -> Objs] :
        /\ IsFreeList(fl, num_free, free_list, mem)
        /\ \A o \in Objs : Held(o) <=> \A i \in 1 .. num_free : fl[i] # o
  BY Zenon DEF Inv, FreeListSound
<1>3. obj - Base[p] \in Objs /\ Held(obj - Base[p])
  BY <1>0, HeldObjs
<1>4. \A i \in 1 .. num_free : mem'[fl[i]] = mem[fl[i]]
  BY <1>0, <1>1, <1>2, <1>3 DEF TypeOK
<1>5. IsFreeList(fl, num_free, free_list, mem')
  BY <1>2, <1>4 DEF IsFreeList
<1>6. \A o \in Objs : Held(o)' <=> Held(o)
  BY <1>1 DEF Held
<1>7. FreeListSound'
  BY Zenon, <1>1, <1>2, <1>5, <1>6 DEF FreeListSound
<1>8. TypeOK' /\ NoSharing'
  BY <1>0, <1>1, <1>3, ObjAssumption DEF TypeOK, NoSharing
<1> QED BY <1>7, <1>8 DEF Inv

LEMMA HandOverInv ==
  ASSUME Inv, NEW p \in Procs, NEW q \in Procs, NEW obj \in held[p], HandOver(p, q, obj)
  PROVE  Inv'
<1>0. TypeOK /\ NoSharing
  BY DEF Inv
<1>1. /\ p # q
      /\ held' = [held EXCEPT ![p] = @ \ {obj},
                    ![q] = @ \cup {index_to_obj(q, obj_to_index(p, obj))}]
      /\ UNCHANGED <<mem, free_list, num_free>>
  BY DEF HandOver
<1> DEFINE o == obj - Base[p]
<1>2. /\ o \in Objs /\ obj \in Nat /\ obj = Base[p] + o /\ Held(o)
      /\ o \in Nat
  BY <1>0, HeldObjs, ObjsNat
<1>3. \A s \in Procs : Base[s] \in Nat
  BY ObjAssumption
<1>4. index_to_obj(q, obj_to_index(p, obj)) = Base[q] + o
  BY <1>2, Indices
<1>5. /\ held'[p] = held[p] \ {obj}
      /\ held'[q] = held[q] \cup {Base[q] + o}
      /\ \A s \in Procs : s # p /\ s # q => held'[s] = held[s]
  BY <1>0, <1>1, <1>4 DEF TypeOK
<1>6. TypeOK'
  <2>1. Base[q] + o \in Nat
    BY <1>2, <1>3
  <2> QED BY <1>0, <1>1, <1>4, <2>1 DEF TypeOK
<1>7. NoSharing'
  <2>1. ASSUME NEW s \in Procs, NEW a \in held'[s]
        PROVE  /\ a - Base[s] \in Objs
               /\ \/ a \in held[s] /\ a - Base[s] # o
                  \/ s = q /\ a - Base[s] = o
    <3>1. CASE a \in held[s] /\ (s = p => a # obj)
      <4>1. a \in Nat /\ a - Base[s] \in Objs
        BY <1>0, <3>1, HeldObjs
      <4>2. s = p => a - Base[s] # o
        BY <1>2, <1>3, <3>1, <4>1
      <4>3. s # p => a - Base[s] # o
        BY <1>0, <3>1 DEF NoSharing
      <4> QED BY <3>1, <4>1, <4>2, <4>3
    <3>2. CASE s = q /\ a = Base[q] + o
      <4>1. a - Base[s] = o
        BY <1>2, <1>3, <3>2
      <4> QED BY <1>2, <3>2, <4>1
    <3> QED BY <1>5, <2>1, <3>1, <3>2
  <2>2. ASSUME NEW s \in Procs, NEW t \in Procs, s # t,
               NEW a \in held'[s], NEW b \in held'[t]
        PROVE  a - Base[s] # b - Base[t]
    <3>1. \/ a \in held[s] /\ a - Base[s] # o
          \/ s = q /\ a - Base[s] = o
      BY <2>1, <2>2
    <3>2. \/ b \in held[t] /\ b - Base[t] # o
          \/ t = q /\ b - Base[t] = o
      BY <2>1, <2>2
    <3> QED BY <1>0, <2>2, <3>1, <3>2 DEF NoSharing
  <2> QED BY <2>1, <2>2 DEF NoSharing
<1>8. ASSUME NEW r \in Objs PROVE Held(r)' <=> Held(r)
  BY Zenon, <1>0, <1>1, <1>2, <1>4, HandOverHeld
<1>9. FreeListSound'
  BY Zenon, <1>1, <1>8 DEF Inv, FreeListSound
<1> QED BY <1>6, <1>7, <1>9 DEF Inv

LEMMA NextInv == Inv /\ [Next]_vars => Inv'
<1> SUFFICES ASSUME Inv, [Next]_vars PROVE Inv'
  OBVIOUS
<1>1. CASE UNCHANGED vars
  <2>1. TypeOK' /\ NoSharing'
    BY <1>1 DEF Inv, vars, TypeOK, NoSharing
  <2>2. FreeListSound'
    BY Zenon, <1>1 DEF Inv, vars, FreeListSound, Held
  <2> QED BY <2>1, <2>2 DEF Inv
<1> QED BY <1>1, AllocInv, FreeInv, UseInv, HandOverInv DEF Next

(* For every number of objects and processes, and wherever the processes   *)
(* see the shared memory: no two processes have the same object.           *)
THEOREM Exclusive == Spec => []NoSharing
<1>1. Inv => NoSharing
  BY DEF Inv
<1> QED BY <1>1, InitInv, NextInv, PTL DEF Spec

(* The free list and its count always describe exactly the objects that    *)
(* no process has: none is lost, and alloc returns NULL only if all are    *)
(* in use.                                                                 *)
THEOREM FreeListCorrect == Spec => []FreeListSound
<1>1. Inv => FreeListSound
  BY DEF Inv
<1> QED BY <1>1, InitInv, NextInv, PTL DEF Spec

=============================================================================
