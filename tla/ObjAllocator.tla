---------------------------- MODULE ObjAllocator ----------------------------
(***************************************************************************)
(* The object allocator (include/xdp2/obj_allocator.h,                     *)
(* lib/xdp2/obj_allocator.c) with address translation (addr_xlat.h).  The  *)
(* list of free objects is kept in the objects themselves.  In shared      *)
(* memory each process has the objects at addresses of its own, Base[p] +  *)
(* offset; the pointers that are stored are relative and NULL is zero.     *)
(* Without translation the processes are threads with one base.            *)
(***************************************************************************)
EXTENDS Integers

CONSTANTS
  Procs,
  NumObjs,    \* max_objs
  ObjSize,    \* obj_size
  Start,      \* offset of the first object
  Base,       \* Base[p]: address at which p sees offset 0
  Xlat,       \* addr_xlat_num is not XDP2_ADDR_XLAT_NO_XLAT
  BaseIndex,  \* base_index
  Junk        \* what owners write over the first word of an object

ASSUME ObjAssumption ==
  /\ NumObjs \in Nat \ {0} /\ ObjSize \in Nat \ {0}
  /\ Start \in Nat /\ BaseIndex \in Nat /\ Xlat \in BOOLEAN
  /\ Base \in [Procs -> Nat]
  /\ Xlat => Start > 0
  /\ ~ Xlat => \A p, q \in Procs : Base[p] = Base[q] /\ Base[p] + Start > 0
  /\ Junk \subseteq Nat
  /\ Procs # {}

VARIABLES
  mem,        \* mem[o]: the first word of the object at offset o
  free_list,
  num_free,
  held        \* held[p]: addresses of the objects that p has

vars == <<mem, free_list, num_free, held>>

Objs == {Start + i * ObjSize : i \in 0 .. NumObjs - 1}

(* xdp2_addr_xlat_translate and xdp2_addr_xlat_reverse_translate. *)
translate(p, addr) == IF ~ Xlat \/ addr = 0 THEN addr ELSE Base[p] + addr

reverse_translate(p, addr) ==
  IF ~ Xlat \/ addr = 0 THEN addr ELSE addr - Base[p]

(* __xdp2_obj_alloc_free_list_init, run by some process.  A loop links     *)
(* every object to the next one.                                           *)
Init ==
  \E p \in Procs :
    /\ mem = [o \in Objs |->
                IF o = Start + (NumObjs - 1) * ObjSize THEN 0
                ELSE reverse_translate(p, Base[p] + o + ObjSize)]
    /\ num_free = NumObjs
    /\ free_list = reverse_translate(p, Base[p] + Start)
    /\ held = [q \in Procs |-> {}]

-----------------------------------------------------------------------------
(* allocator->base as p translates it, and the indices of objects. *)
base(p) ==
  translate(p, reverse_translate(p, Base[p] + Start))

obj_to_index(p, obj) == (obj - base(p)) \div ObjSize + BaseIndex

index_to_obj(p, index) == base(p) + (index - BaseIndex) * ObjSize

(* Mutant: the list keeps its head. *)
Malloc_KeepsHead(p) ==
  /\ num_free # 0
  /\ held' = [held EXCEPT ![p] = @ \cup {translate(p, free_list)}]
  /\ num_free' = num_free - 1
  /\ UNCHANGED <<mem, free_list>>

(* __xdp2_obj_alloc_free_list_alloc: NULL if there is no free object, else *)
(* the head of the list.                                                   *)
alloc(p) ==
  LET obj == translate(p, free_list)
  IN IF num_free = 0
       THEN UNCHANGED vars
       ELSE /\ free_list' = mem[obj - Base[p]]
            /\ num_free' = num_free - 1
            /\ held' = [held EXCEPT ![p] = @ \cup {obj}]
            /\ UNCHANGED mem

(* Mutant: the head is stored as the absolute address. *)
Mfree_Absolute(p, obj) ==
  /\ obj \in held[p]
  /\ mem' = [mem EXCEPT ![obj - Base[p]] = free_list]
  /\ free_list' = obj
  /\ num_free' = num_free + 1
  /\ held' = [held EXCEPT ![p] = @ \ {obj}]

(* __xdp2_obj_alloc_free_list_free, of an object that p has. *)
free(p, obj) ==
  /\ obj \in held[p]
  /\ mem' = [mem EXCEPT ![obj - Base[p]] = free_list]
  /\ free_list' = reverse_translate(p, obj)
  /\ num_free' = num_free + 1
  /\ held' = [held EXCEPT ![p] = @ \ {obj}]

(* The owner uses its object, or tells another process its index. *)
Use(p, obj) ==
  /\ obj \in held[p]
  /\ \E w \in Junk : mem' = [mem EXCEPT ![obj - Base[p]] = w]
  /\ UNCHANGED <<free_list, num_free, held>>

HandOver(p, q, obj) ==
  /\ p # q /\ obj \in held[p]
  /\ held' = [held EXCEPT ![p] = @ \ {obj},
                          ![q] = @ \cup {index_to_obj(q, obj_to_index(p, obj))}]
  /\ UNCHANGED <<mem, free_list, num_free>>

Next ==
  \E p \in Procs :
    \/ alloc(p)
    \/ \E obj \in held[p] :
         free(p, obj) \/ Use(p, obj) \/ \E q \in Procs : HandOver(p, q, obj)

Spec == Init /\ [][Next]_vars

-----------------------------------------------------------------------------
(* num_free, an unsigned count, never goes below zero, and every pointer,  *)
(* relative or absolute, that alloc and free compute is an address.        *)
TypeOK ==
  /\ mem \in [Objs -> Nat]
  /\ free_list \in Nat
  /\ num_free \in Nat
  /\ held \in [Procs -> SUBSET Nat]

(* Every address that a process has is that of an object, and no two       *)
(* processes have the same object.                                         *)
NoSharing ==
  /\ \A p \in Procs : \A a \in held[p] : a - Base[p] \in Objs
  /\ \A p, q \in Procs : p # q =>
       \A a \in held[p], b \in held[q] : a - Base[p] # b - Base[q]

Held(o) == \E p \in Procs : Base[p] + o \in held[p]

(* The pointer to the object at offset o as it is stored. *)
Stored(o) == reverse_translate(CHOOSE p \in Procs : TRUE,
                               Base[CHOOSE p \in Procs : TRUE] + o)

(* fl is a list of n objects that follow one another in m from head on. *)
IsFreeList(fl, n, head, m) ==
  /\ \A i, j \in 1 .. n : i # j => fl[i] # fl[j]
  /\ head = IF n = 0 THEN 0 ELSE Stored(fl[1])
  /\ \A i \in 1 .. n : m[fl[i]] = IF i = n THEN 0 ELSE Stored(fl[i + 1])

(* The free list holds num_free different objects, which are exactly those *)
(* that no process has: whatever owners write into their objects, an       *)
(* object is never handed out twice or lost, and an allocation fails only  *)
(* if all objects are in use.                                              *)
FreeListSound ==
  \E fl \in [1 .. num_free -> Objs] :
    /\ IsFreeList(fl, num_free, free_list, mem)
    /\ \A o \in Objs : Held(o) <=> \A i \in 1 .. num_free : fl[i] # o
=============================================================================
