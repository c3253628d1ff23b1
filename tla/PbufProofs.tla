----------------------------- MODULE PbufProofs -----------------------------
(***************************************************************************)
(* For any number of threads, pbufs and iovecs, the reference counts are   *)
(* exact, and the pbufs use the object allocator as it is meant to be      *)
(* used.                                                                   *)
(***************************************************************************)
EXTENDS Pbufs, ObjAllocatorProofs, FiniteSetTheorems

Offset(z) == Start + z * ObjSize

(* Different pbufs are different objects. *)
LEMMA Offsets ==
  ASSUME NEW z \in Zindexes
  PROVE  /\ Offset(z) \in Objs
         /\ \A y \in Zindexes : Offset(y) = Offset(z) => y = z
         /\ \A p \in Procs : /\ pbuf(p, z) = Base[p] + Offset(z)
                             /\ obj_to_index(p, Base[p] + Offset(z)) - BaseIndex = z
<1>1. PICK p \in Procs : TRUE
  BY ObjAssumption
<1>2. z \in Nat /\ BaseIndex \in Nat /\ Start \in Nat
  BY ObjAssumption DEF Zindexes
<1>3. ASSUME NEW y \in Zindexes, Offset(y) = Offset(z)
      PROVE  y = z
  <2>1. y \in Nat
    BY ObjAssumption DEF Zindexes
  <2>2. y * ObjSize = z * ObjSize
    <3>1. y * ObjSize \in Nat /\ z * ObjSize \in Nat
      BY <1>2, <2>1, Multiples
    <3> QED BY <1>2, <1>3, <3>1 DEF Offset
  <2>3. y = (y * ObjSize) \div ObjSize /\ z = (z * ObjSize) \div ObjSize
    BY <1>2, <2>1, Multiples
  <2> QED BY <2>2, <2>3, Zenon
<1>4. ASSUME NEW q \in Procs
      PROVE  /\ Offset(z) \in Objs
             /\ pbuf(q, z) = Base[q] + Offset(z)
             /\ obj_to_index(q, Base[q] + Offset(z)) = z + BaseIndex
  BY IndexOf DEF Zindexes, Offset, pbuf
<1>5. (z + BaseIndex) - BaseIndex = z
  BY <1>2
<1> QED BY <1>1, <1>3, <1>4, <1>5

(* Every object is that of a pbuf. *)
LEMMA OffsetOf ==
  ASSUME NEW o \in Objs
  PROVE  \E z \in Zindexes : o = Offset(z)
BY DEF Objs, Zindexes, Offset

(* A step of the pbufs is a step of the allocator's clients, or none. *)
LEMMA StepRefines ==
  ASSUME [PbufNext]_pbuf_vars
  PROVE  [Next]_vars
<1> USE DEF pbuf_vars
<1>1. ASSUME NEW p \in Procs, pbuf_alloc(p)
      PROVE  [Next]_vars
  BY <1>1 DEF pbuf_alloc, Next
<1>2. ASSUME NEW p \in Procs, pbuf_release(p)
      PROVE  [Next]_vars
  BY Zenon, <1>2 DEF pbuf_release, free, Next
<1>3. ASSUME NEW p \in Procs, pullup_copy(p)
      PROVE  [Next]_vars
  BY Zenon, <1>3 DEF pullup_copy, Use, Next
<1>4. ASSUME NEW p \in Procs, NEW s \in Slots, pbuf_free(p, s)
      PROVE  [Next]_vars
  BY <1>4 DEF pbuf_free, take, HandOver, Next
<1>5. ASSUME NEW p \in Procs, NEW s \in Slots,
             \/ pbuf_set(p, s) \/ pbuf_convert(p, s) \/ pullup_check(p, s)
             \/ \E t \in Slots : pbuf_share(p, s, t)
             \/ \E q \in Procs : Pass(p, q, s)
      PROVE  UNCHANGED vars
  BY <1>5 DEF pbuf_set, pbuf_convert, pullup_check, pbuf_share, Pass
<1> QED BY <1>1, <1>2, <1>3, <1>4, <1>5 DEF PbufNext

(* The pbufs use the allocator as its specification says: they free only   *)
(* what was allocated and is still held, once, and write only into what    *)
(* they hold.                                                              *)
THEOREM UsesAllocator == PbufSpec => Spec
<1>1. PbufInit => Init
  BY DEF PbufInit
<1>2. [PbufNext]_pbuf_vars => [Next]_vars
  BY StepRefines
<1> QED BY <1>1, <1>2, PTL DEF PbufSpec, Spec

-----------------------------------------------------------------------------
(* How many iovecs count when one is set or unset. *)
LEMMA CountedFinite ==
  ASSUME NEW z
  PROVE  IsFiniteSet(Counted(z)) /\ Cardinality(Counted(z)) \in Nat
<1>1. Counted(z) \in SUBSET Slots
  BY DEF Counted
<1> QED BY <1>1, SlotsFinite, FS_Subset, FS_CardinalityType

LEMMA CountUp ==
  ASSUME PbufTypeOK, NEW s \in Slots, NEW z \in Zindexes,
         tag[s] # "pbuf", tag' = [tag EXCEPT ![s] = "pbuf"],
         zindex' = [zindex EXCEPT ![s] = z]
  PROVE  /\ Cardinality(Counted(z)') = Cardinality(Counted(z)) + 1
         /\ \A y \in Zindexes : y # z => Counted(y)' = Counted(y)
<1>1. Counted(z)' = Counted(z) \cup {s}
  BY DEF Counted, PbufTypeOK
<1>2. s \notin Counted(z)
  BY DEF Counted
<1>3. \A y \in Zindexes : y # z => Counted(y)' = Counted(y)
  BY DEF Counted, PbufTypeOK
<1> QED BY Zenon, <1>1, <1>2, <1>3, CountedFinite, FS_AddElement

LEMMA CountDown ==
  ASSUME PbufTypeOK, NEW s \in Slots, NEW z \in Zindexes,
         tag[s] = "pbuf", zindex[s] = z, tag' = [tag EXCEPT ![s] = "unset"],
         zindex' = [zindex EXCEPT ![s] = 0]
  PROVE  /\ Cardinality(Counted(z)') = Cardinality(Counted(z)) - 1
         /\ \A y \in Zindexes : y # z => Counted(y)' = Counted(y)
<1>1. Counted(z)' = Counted(z) \ {s}
  BY DEF Counted, PbufTypeOK
<1>2. s \in Counted(z)
  BY DEF Counted
<1>3. \A y \in Zindexes : y # z => Counted(y)' = Counted(y)
  BY DEF Counted, PbufTypeOK
<1> QED BY ZenonT(30), <1>1, <1>2, <1>3, CountedFinite, FS_RemoveElement

(* A count of one, read by a holder, means that no other iovec holds it. *)
LEMMA LastOne ==
  ASSUME RefsCounted, NEW s \in Slots, tag[s] # "unset", refcnt[zindex[s]] = 1
  PROVE  /\ tag[s] = "pbuf"
         /\ \A t \in Slots : Holds(t, zindex[s]) => t = s
<1> DEFINE z == zindex[s]
<1>1. PbufTypeOK /\ z \in Zindexes
  BY DEF RefsCounted, PbufTypeOK
<1>2. \E x : Counted(z) = {x}
  BY Zenon, <1>1, CountedFinite, FS_Singleton DEF RefsCounted
<1>3. PICK x : Counted(z) = {x}
  BY <1>2
<1>4. x \in Slots /\ tag[x] = "pbuf" /\ zindex[x] = z
  BY <1>3 DEF Counted
<1>5. tag[s] = "pbuf"
  BY <1>1, <1>4 DEF RefsCounted, Holds, PbufTypeOK
<1>6. ASSUME NEW t \in Slots, Holds(t, z)
      PROVE  t = s
  <2>1. tag[t] = "pbuf"
    BY <1>1, <1>5, <1>6 DEF RefsCounted, Holds, PbufTypeOK
  <2>2. t \in Counted(z) /\ s \in Counted(z)
    BY <1>5, <1>6, <2>1 DEF Counted, Holds
  <2> QED BY <1>3, <2>2
<1> QED BY <1>5, <1>6

-----------------------------------------------------------------------------
(* RefsCounted, part by part. *)
Counts == \A z \in Zindexes : refcnt[z] = Cardinality(Counted(z))

Singles ==
  \A z \in Zindexes : \A s, t \in Slots :
    Holds(s, z) /\ Holds(t, z) /\ tag[s] = "1ref" => s = t

CallsAlone ==
  \A z \in Zindexes : \A p \in Procs : InCall(p, z) =>
    /\ \A s \in Slots : ~ Holds(s, z)
    /\ \A q \in Procs : InCall(q, z) => p = q

InUse ==
  \A z \in Zindexes :
    Held(Offset(z)) <=>
      (\E s \in Slots : Holds(s, z)) \/ (\E p \in Procs : InCall(p, z))

(* The inductive invariant. *)
Parts == PbufTypeOK /\ Counts /\ Singles /\ CallsAlone /\ InUse

PbufInv == Inv /\ Parts /\ WriteExclusive

LEMMA PartsOf == RefsCounted <=> Parts
BY DEF RefsCounted, Parts, Counts, Singles, CallsAlone, InUse, Offset

LEMMA PbufInitInv == PbufInit => PbufInv
<1> SUFFICES ASSUME PbufInit PROVE PbufInv
  OBVIOUS
<1>1. Inv
  BY InitInv DEF PbufInit
<1>2. PbufTypeOK
  <2>1. 0 \in Zindexes
    BY ObjAssumption DEF Zindexes
  <2> QED BY <2>1 DEF PbufInit, PbufTypeOK
<1>3. Counts
  <2>1. \A z \in Zindexes : Counted(z) = {}
    BY DEF PbufInit, Counted
  <2> QED BY ZenonT(30), <2>1, FS_EmptySet DEF PbufInit, Counts
<1>4. \A z : /\ \A s \in Slots : ~ Holds(s, z)
             /\ \A p \in Procs : ~ InCall(p, z)
  BY DEF PbufInit, Holds, InCall
<1>5. \A z \in Zindexes : ~ Held(Offset(z))
  BY DEF PbufInit, Init, Held
<1>6. Singles /\ CallsAlone /\ InUse
  BY <1>4, <1>5 DEF Singles, CallsAlone, InUse
<1>7. WriteExclusive
  BY DEF PbufInit, WriteExclusive
<1> QED BY <1>1, <1>2, <1>3, <1>6, <1>7 DEF PbufInv, Parts

-----------------------------------------------------------------------------
(* One lemma per step. *)
LEMMA PbufAllocInv ==
  ASSUME PbufInv, NEW p \in Procs, pbuf_alloc(p)
  PROVE  Parts' /\ WriteExclusive'
<1>0. /\ Inv /\ PbufTypeOK /\ Counts /\ Singles /\ CallsAlone /\ InUse
      /\ WriteExclusive /\ call[p] = "idle"
  BY DEF PbufInv, Parts, pbuf_alloc, Idle
<1>1. UNCHANGED <<refcnt, tag, zindex, by, one_ref>>
  BY DEF pbuf_alloc, refs
<1>2. Counts' /\ Singles'
  BY <1>0, <1>1 DEF Counts, Singles, Counted, Holds
<1>3. CASE num_free = 0
  <2>1. held' = held /\ call' = call /\ at' = at
    BY <1>3 DEF pbuf_alloc, alloc, vars, calls
  <2> QED BY <1>0, <1>1, <1>2, <2>1
          DEF Parts, PbufTypeOK, CallsAlone, InUse, WriteExclusive, Holds,
              InCall, Held
<1>4. CASE num_free # 0
  <2>1. PICK o \in Objs :
          /\ translate(p, free_list) = Base[p] + o
          /\ ~ Held(o)
          /\ \A r \in Objs : Held(r)' <=> Held(r) \/ r = o
    BY <1>0, <1>4, AllocHeld DEF pbuf_alloc
  <2>2. PICK z \in Zindexes : o = Offset(z)
    BY OffsetOf
  <2>3. call' = [call EXCEPT ![p] = "alloc"] /\ at' = [at EXCEPT ![p] = z]
    BY <1>4, <2>1, <2>2, Offsets DEF pbuf_alloc, Begin
  <2>4. /\ \A s \in Slots : ~ Holds(s, z)
        /\ \A q \in Procs : ~ InCall(q, z)
    BY <1>0, <2>1, <2>2 DEF InUse
  <2>5. \A q \in Procs : \A y :
          InCall(q, y)' <=> InCall(q, y) \/ (q = p /\ y = z)
    BY <1>0, <2>3 DEF InCall, PbufTypeOK
  <2>6. \A s \in Slots : \A y : Holds(s, y)' <=> Holds(s, y)
    BY <1>1 DEF Holds
  <2>7. PbufTypeOK'
    BY <1>0, <1>1, <2>3 DEF PbufTypeOK
  <2>8. CallsAlone'
    BY <1>0, <2>4, <2>5, <2>6 DEF CallsAlone
  <2>9. \A y \in Zindexes : Held(Offset(y))' <=> Held(Offset(y)) \/ y = z
    BY <2>1, <2>2, Offsets
  <2>10. InUse'
    BY <1>0, <2>5, <2>6, <2>9 DEF InUse
  <2>11. WriteExclusive'
    BY <1>0, <1>1, <2>3, <2>6 DEF WriteExclusive, PbufTypeOK
  <2> QED BY <1>2, <2>7, <2>8, <2>10, <2>11 DEF Parts
<1> QED BY <1>3, <1>4

LEMMA PbufReleaseInv ==
  ASSUME PbufInv, NEW p \in Procs, pbuf_release(p)
  PROVE  Parts' /\ WriteExclusive'
<1> DEFINE z == at[p]
<1>0. /\ Inv /\ PbufTypeOK /\ Counts /\ Singles /\ CallsAlone /\ InUse
      /\ WriteExclusive /\ call[p] = "free" /\ z \in Zindexes
  BY DEF PbufInv, Parts, pbuf_release, PbufTypeOK
<1>1. /\ UNCHANGED <<refcnt, tag, zindex, by, one_ref>>
      /\ call' = [call EXCEPT ![p] = "idle"] /\ at' = [at EXCEPT ![p] = 0]
  BY DEF pbuf_release, refs, Return, Begin
<1>2. Counts' /\ Singles'
  BY <1>0, <1>1 DEF Counts, Singles, Counted, Holds
<1>3. \A y \in Zindexes : Held(Offset(y))' <=> Held(Offset(y)) /\ y # z
  <2>1. /\ Base[p] + Offset(z) \in held[p]
        /\ held' = [held EXCEPT ![p] = @ \ {Base[p] + Offset(z)}]
    BY Zenon, <1>0, Offsets DEF pbuf_release, free
  <2>2. Offset(z) \in Objs
    BY <1>0, Offsets
  <2> HIDE DEF z
  <2>3. \A r \in Objs : Held(r)' <=> Held(r) /\ r # Offset(z)
    BY Zenon, <1>0, <2>1, <2>2, FreeHeld DEF Inv
  <2> QED BY <1>0, <2>3, Offsets
<1>4. /\ \A s \in Slots : ~ Holds(s, z)
      /\ \A q \in Procs : InCall(q, z) => q = p
      /\ \A y : InCall(p, y) => y = z
  BY <1>0 DEF CallsAlone, InCall
<1>5. /\ \A q \in Procs : \A y : InCall(q, y)' <=> InCall(q, y) /\ q # p
      /\ \A s \in Slots : \A y : Holds(s, y)' <=> Holds(s, y)
  BY <1>0, <1>1 DEF InCall, PbufTypeOK, Holds
<1>6. PbufTypeOK'
  <2>1. 0 \in Zindexes
    BY ObjAssumption DEF Zindexes
  <2> QED BY <1>0, <1>1, <2>1 DEF PbufTypeOK
<1>7. CallsAlone'
  BY <1>0, <1>5 DEF CallsAlone
<1>8. InUse'
  <2> HIDE DEF z
  <2> QED BY <1>0, <1>3, <1>4, <1>5 DEF InUse
<1>9. WriteExclusive'
  BY <1>0, <1>1, <1>5 DEF WriteExclusive, PbufTypeOK
<1> QED BY <1>2, <1>6, <1>7, <1>8, <1>9 DEF Parts

(* The steps that leave the allocator alone leave its objects in use. *)
LEMMA SameHeld ==
  ASSUME UNCHANGED vars
  PROVE  \A o : Held(o)' <=> Held(o)
BY DEF vars, Held

LEMMA PullupCopyInv ==
  ASSUME PbufInv, NEW p \in Procs, pullup_copy(p)
  PROVE  Parts' /\ WriteExclusive'
<1>0. /\ PbufTypeOK /\ Counts /\ Singles /\ CallsAlone /\ InUse
      /\ WriteExclusive /\ call[p] = "pullup" /\ 0 \in Zindexes
  BY ObjAssumption DEF PbufInv, Parts, pullup_copy, Zindexes
<1>1. /\ UNCHANGED <<refcnt, tag, zindex, by, one_ref, held>>
      /\ call' = [call EXCEPT ![p] = "idle"] /\ at' = [at EXCEPT ![p] = 0]
  BY DEF pullup_copy, refs, Return, Begin, Use
<1>2. /\ \A q \in Procs : \A y : InCall(q, y)' <=> InCall(q, y)
      /\ \A s \in Slots : \A y : Holds(s, y)' <=> Holds(s, y)
      /\ \A o : Held(o)' <=> Held(o)
  BY <1>0, <1>1 DEF InCall, PbufTypeOK, Holds, Held
<1>3. PbufTypeOK'
  BY <1>0, <1>1 DEF PbufTypeOK
<1>4. Counts' /\ Singles'
  BY <1>0, <1>1 DEF Counts, Singles, Counted, Holds
<1>5. CallsAlone' /\ InUse'
  BY <1>0, <1>2 DEF CallsAlone, InUse
<1>6. WriteExclusive'
  BY <1>0, <1>1, <1>2 DEF WriteExclusive, PbufTypeOK
<1> QED BY <1>3, <1>4, <1>5, <1>6 DEF Parts

LEMMA PbufSetInv ==
  ASSUME PbufInv, NEW p \in Procs, NEW s \in Slots, pbuf_set(p, s)
  PROVE  Parts' /\ WriteExclusive'
<1>z. PICK z \in Zindexes : z = at[p]
  BY DEF PbufInv, Parts, PbufTypeOK
<1>0. /\ PbufTypeOK /\ Counts /\ Singles /\ CallsAlone /\ InUse
      /\ WriteExclusive /\ call[p] = "alloc" /\ 0 \in Zindexes
      /\ tag[s] = "unset" /\ by[s] = p
  BY ObjAssumption DEF PbufInv, Parts, pbuf_set, Zindexes, PbufTypeOK
<1>1. /\ UNCHANGED <<by, one_ref>>
      /\ call' = [call EXCEPT ![p] = "idle"] /\ at' = [at EXCEPT ![p] = 0]
      /\ tag' = [tag EXCEPT ![s] = IF one_ref THEN "1ref" ELSE "pbuf"]
      /\ zindex' = [zindex EXCEPT ![s] = z]
      /\ refcnt' = IF one_ref THEN refcnt ELSE [refcnt EXCEPT ![z] = 1]
      /\ \A o : Held(o)' <=> Held(o)
  BY <1>z, SameHeld DEF pbuf_set, Return, Begin, set_ent
<1>2. /\ \A t \in Slots : ~ Holds(t, z)
      /\ \A q \in Procs : InCall(q, z) => q = p
      /\ \A y : InCall(p, y) <=> y = z
  BY <1>0, <1>z DEF CallsAlone, InCall
<1>3. /\ \A q \in Procs : \A y : InCall(q, y)' <=> InCall(q, y) /\ q # p
      /\ \A t \in Slots : \A y : Holds(t, y)' <=> Holds(t, y) \/ (t = s /\ y = z)
  BY <1>0, <1>1 DEF InCall, PbufTypeOK, Holds
<1>4. PbufTypeOK'
  BY <1>0, <1>1 DEF PbufTypeOK
<1>5. Counts'
  <2>1. CASE one_ref
    <3>1. \A y \in Zindexes : Counted(y)' = Counted(y)
      BY <1>0, <1>1, <2>1 DEF Counted, PbufTypeOK
    <3> QED BY <1>0, <1>1, <2>1, <3>1 DEF Counts
  <2>2. CASE ~ one_ref
    <3>1. Counted(z) = {}
      BY <1>2 DEF Counted, Holds
    <3>2. Cardinality(Counted(z)) = 0
      BY <3>1, FS_EmptySet
    <3>3. /\ tag' = [tag EXCEPT ![s] = "pbuf"]
          /\ refcnt' = [refcnt EXCEPT ![z] = 1]
      BY <1>1, <2>2
    <3>4. zindex' = [zindex EXCEPT ![s] = z] /\ tag[s] # "pbuf"
      BY <1>0, <1>1
    <3>5. /\ Cardinality(Counted(z)') = Cardinality(Counted(z)) + 1
          /\ \A y \in Zindexes : y # z => Counted(y)' = Counted(y)
      BY ZenonT(30), <1>0, <3>3, <3>4, CountUp
    <3>6. Cardinality(Counted(z)') = 1
      BY <3>2, <3>5
    <3> QED BY <1>0, <3>3, <3>5, <3>6 DEF Counts, PbufTypeOK
  <2> QED BY <2>1, <2>2
<1>6. Singles'
  <2>1. \A t \in Slots : t # s => tag'[t] = tag[t]
    BY <1>0, <1>1 DEF PbufTypeOK
  <2>2. \A y : ~ Holds(s, y)
    BY <1>0 DEF Holds
  <2>3. ASSUME NEW y \in Zindexes, NEW t \in Slots, NEW u \in Slots,
               Holds(t, y)', Holds(u, y)', tag'[t] = "1ref"
        PROVE  t = u
    BY <1>0, <1>2, <1>3, <2>1, <2>2, <2>3 DEF Singles
  <2> QED BY <2>3 DEF Singles
<1>7. CallsAlone'
  BY <1>0, <1>2, <1>3 DEF CallsAlone
<1>8. InUse'
  BY <1>0, <1>1, <1>2, <1>3 DEF InUse
<1>9. WriteExclusive'
  <2>1. \A q \in Procs : call'[q] = "pullup" =>
          call[q] = "pullup" /\ q # p /\ at'[q] = at[q]
    BY <1>0, <1>1 DEF PbufTypeOK
  <2>2. \A q \in Procs : call[q] = "pullup" => at[q] # z
    BY <1>0, <1>2 DEF WriteExclusive
  <2> QED BY <1>0, <1>1, <1>3, <2>1, <2>2 DEF WriteExclusive
<1> QED BY <1>4, <1>5, <1>6, <1>7, <1>8, <1>9 DEF Parts

LEMMA PbufConvertInv ==
  ASSUME PbufInv, NEW p \in Procs, NEW s \in Slots, pbuf_convert(p, s)
  PROVE  Parts' /\ WriteExclusive'
<1>z. PICK z \in Zindexes : z = zindex[s]
  BY DEF PbufInv, Parts, PbufTypeOK
<1>0. /\ PbufTypeOK /\ Counts /\ Singles /\ CallsAlone /\ InUse
      /\ WriteExclusive /\ tag[s] = "1ref"
  BY DEF PbufInv, Parts, pbuf_convert, PbufTypeOK
<1>1. /\ UNCHANGED <<by, one_ref, call, at>>
      /\ tag' = [tag EXCEPT ![s] = "pbuf"]
      /\ zindex' = [zindex EXCEPT ![s] = z]
      /\ refcnt' = [refcnt EXCEPT ![z] = refcnt[z] + 1]
      /\ \A o : Held(o)' <=> Held(o)
  BY <1>z, SameHeld DEF pbuf_convert, calls, set_ent
<1>2. /\ \A q \in Procs : \A y : InCall(q, y)' <=> InCall(q, y)
      /\ \A t \in Slots : \A y : Holds(t, y)' <=> Holds(t, y)
  BY <1>0, <1>1, <1>z DEF InCall, PbufTypeOK, Holds
<1>3. PbufTypeOK'
  BY <1>0, <1>1 DEF PbufTypeOK
<1>4. Counts'
  <2>1. /\ Cardinality(Counted(z)') = Cardinality(Counted(z)) + 1
        /\ \A y \in Zindexes : y # z => Counted(y)' = Counted(y)
    BY Zenon, <1>0, <1>1, CountUp
  <2> QED BY <1>0, <1>1, <2>1 DEF Counts, PbufTypeOK
<1>5. Singles'
  BY <1>0, <1>1, <1>2 DEF Singles, PbufTypeOK
<1>6. CallsAlone' /\ InUse'
  BY <1>0, <1>1, <1>2 DEF CallsAlone, InUse
<1>7. WriteExclusive'
  BY <1>0, <1>1, <1>2 DEF WriteExclusive
<1> QED BY <1>3, <1>4, <1>5, <1>6, <1>7 DEF Parts

LEMMA PbufShareInv ==
  ASSUME PbufInv, NEW p \in Procs, NEW s \in Slots, NEW t \in Slots,
         pbuf_share(p, s, t)
  PROVE  Parts' /\ WriteExclusive'
<1>z. PICK z \in Zindexes : z = zindex[s]
  BY DEF PbufInv, Parts, PbufTypeOK
<1>0. /\ PbufTypeOK /\ Counts /\ Singles /\ CallsAlone /\ InUse
      /\ WriteExclusive /\ call[p] = "idle" /\ by[s] = p
      /\ tag[s] = "pbuf" /\ tag[t] = "unset" /\ Holds(s, z)
  BY <1>z DEF PbufInv, Parts, pbuf_share, Idle, Holds
<1>1. /\ UNCHANGED <<by, one_ref, call, at>>
      /\ tag' = [tag EXCEPT ![t] = "pbuf"]
      /\ zindex' = [zindex EXCEPT ![t] = z]
      /\ refcnt' = [refcnt EXCEPT ![z] = refcnt[z] + 1]
      /\ \A o : Held(o)' <=> Held(o)
  BY <1>z, SameHeld DEF pbuf_share, calls, set_ent
<1>2. /\ \A q \in Procs : \A y : InCall(q, y)' <=> InCall(q, y)
      /\ \A u \in Slots : \A y : Holds(u, y)' <=> Holds(u, y) \/ (u = t /\ y = z)
  BY <1>0, <1>1 DEF InCall, PbufTypeOK, Holds
<1>3. PbufTypeOK'
  BY <1>0, <1>1 DEF PbufTypeOK
<1>4. Counts'
  <2>1. /\ Cardinality(Counted(z)') = Cardinality(Counted(z)) + 1
        /\ \A y \in Zindexes : y # z => Counted(y)' = Counted(y)
    BY ZenonT(30), <1>0, <1>1, CountUp
  <2> QED BY <1>0, <1>1, <2>1 DEF Counts, PbufTypeOK
<1>5. Singles'
  <2>1. /\ \A u \in Slots : u # t => tag'[u] = tag[u]
        /\ tag'[t] = "pbuf"
    BY <1>0, <1>1 DEF PbufTypeOK
  <2> QED BY <1>0, <1>2, <2>1 DEF Singles
<1>6. CallsAlone' /\ InUse'
  BY <1>0, <1>1, <1>2 DEF CallsAlone, InUse
<1>7. WriteExclusive'
  <2>1. \A q \in Procs : call[q] = "pullup" => at[q] # z
    BY <1>0 DEF WriteExclusive
  <2> QED BY <1>0, <1>1, <1>2, <2>1 DEF WriteExclusive
<1> QED BY <1>3, <1>4, <1>5, <1>6, <1>7 DEF Parts

LEMMA TakeHeld ==
  ASSUME Inv, NEW p \in Procs, NEW z \in Zindexes, take(p, z)
  PROVE  \A r \in Objs : Held(r)' <=> Held(r)
<1>1. CASE UNCHANGED vars
  BY <1>1, SameHeld
<1>2. CASE \E q \in Procs : HandOver(q, p, pbuf(q, z))
  <2>1. PICK q \in Procs : HandOver(q, p, Base[q] + Offset(z))
    BY <1>2, Offsets
  <2>2. /\ Offset(z) \in Objs
        /\ index_to_obj(p, obj_to_index(q, Base[q] + Offset(z))) = Base[p] + Offset(z)
    BY Offsets, Indices
  <2> QED BY ZenonT(30), <2>1, <2>2, HandOverHeld DEF HandOver, Inv
<1> QED BY <1>1, <1>2 DEF take

LEMMA PbufFreeInv ==
  ASSUME PbufInv, NEW p \in Procs, NEW s \in Slots, pbuf_free(p, s)
  PROVE  Parts' /\ WriteExclusive'
<1>z. PICK z \in Zindexes : z = zindex[s]
  BY DEF PbufInv, Parts, PbufTypeOK
<1> DEFINE last == tag[s] = "1ref" \/ refcnt[z] = 1
<1>0. /\ Inv /\ PbufTypeOK /\ Counts /\ Singles /\ CallsAlone /\ InUse
      /\ WriteExclusive /\ call[p] = "idle" /\ by[s] = p /\ 0 \in Zindexes
      /\ tag[s] \in {"pbuf", "1ref"} /\ Holds(s, z)
  BY <1>z, ObjAssumption
     DEF PbufInv, Parts, pbuf_free, Idle, Holds, PbufTypeOK, Zindexes
<1>1. /\ UNCHANGED <<by, one_ref>>
      /\ tag' = [tag EXCEPT ![s] = "unset"]
      /\ zindex' = [zindex EXCEPT ![s] = 0]
      /\ refcnt' = IF tag[s] = "1ref" THEN refcnt
                   ELSE [refcnt EXCEPT ![z] = refcnt[z] - 1]
      /\ IF last THEN /\ call' = [call EXCEPT ![p] = "free"]
                      /\ at' = [at EXCEPT ![p] = z]
                      /\ take(p, z)
         ELSE UNCHANGED <<vars, call, at>>
  BY <1>z DEF pbuf_free, calls, unset_ent, set_ent, Begin
<1>2. \A y \in Zindexes : Held(Offset(y))' <=> Held(Offset(y))
  BY <1>0, <1>1, TakeHeld, SameHeld, Offsets
<1>3. /\ \A q \in Procs : \A y :
           InCall(q, y)' <=> InCall(q, y) \/ (last /\ q = p /\ y = z)
      /\ \A t \in Slots : \A y : Holds(t, y)' <=> Holds(t, y) /\ t # s
  BY <1>0, <1>1 DEF InCall, PbufTypeOK, Holds
<1>4. PbufTypeOK'
  BY <1>0, <1>1 DEF PbufTypeOK
<1>5. Counts'
  <2>1. CASE tag[s] = "1ref"
    <3>1. \A y \in Zindexes : Counted(y)' = Counted(y)
      BY <1>0, <1>1, <2>1 DEF Counted, PbufTypeOK
    <3> QED BY <1>0, <1>1, <2>1, <3>1 DEF Counts
  <2>2. CASE tag[s] = "pbuf"
    <3>1. /\ Cardinality(Counted(z)') = Cardinality(Counted(z)) - 1
          /\ \A y \in Zindexes : y # z => Counted(y)' = Counted(y)
      BY ZenonT(30), <1>0, <1>1, <1>z, <2>2, CountDown
    <3>2. refcnt' = [refcnt EXCEPT ![z] = refcnt[z] - 1]
      BY <1>1, <2>2
    <3> QED BY <1>0, <3>1, <3>2 DEF Counts, PbufTypeOK
  <2> QED BY <1>0, <2>1, <2>2
<1>6. Singles'
  BY <1>0, <1>1, <1>3 DEF Singles, PbufTypeOK
<1>7. \A q \in Procs : ~ InCall(q, z)
  BY <1>0 DEF CallsAlone
<1>8. last => \A t \in Slots : Holds(t, z) => t = s
  BY <1>0, <1>z, LastOne, PartsOf DEF Parts, Singles
<1>9. ~ last => \E t \in Slots : Holds(t, z) /\ t # s
  <2> SUFFICES ASSUME ~ last PROVE \E t \in Slots : Holds(t, z) /\ t # s
    OBVIOUS
  <2>1. Cardinality(Counted(z) \ {s}) = Cardinality(Counted(z)) - 1
    <3>1. s \in Counted(z)
      BY <1>0 DEF Counted, Holds
    <3> QED BY Zenon, <3>1, CountedFinite, FS_RemoveElement
  <2>2. Cardinality(Counted(z)) # 1 /\ Cardinality(Counted(z)) \in Nat
    BY <1>0, CountedFinite DEF Counts
  <2>3. Counted(z) \ {s} # {}
    BY <2>1, <2>2, FS_EmptySet
  <2> QED BY <2>3 DEF Counted, Holds
<1> HIDE DEF last
<1>10. CallsAlone'
  BY <1>0, <1>3, <1>7, <1>8 DEF CallsAlone
<1>11. InUse'
  <2>1. ASSUME NEW y \in Zindexes, y # z
        PROVE  Held(Offset(y))' <=> \/ \E t \in Slots : Holds(t, y)'
                                    \/ \E q \in Procs : InCall(q, y)'
    <3>1. \A t \in Slots : Holds(t, y) => t # s
      BY <1>0, <2>1 DEF Holds
    <3> QED BY <1>0, <1>2, <1>3, <2>1, <3>1 DEF InUse
  <2>2. Held(Offset(z))' /\ (\/ \E t \in Slots : Holds(t, z)'
                             \/ \E q \in Procs : InCall(q, z)')
    BY <1>0, <1>2, <1>3, <1>9 DEF InUse
  <2> QED BY <2>1, <2>2 DEF InUse
<1>12. WriteExclusive'
  <2>1. \A q \in Procs : call'[q] = "pullup" =>
          call[q] = "pullup" /\ q # p /\ at'[q] = at[q]
    BY <1>0, <1>1 DEF PbufTypeOK
  <2> QED BY <1>0, <1>1, <1>3, <2>1 DEF WriteExclusive
<1> QED BY <1>4, <1>5, <1>6, <1>10, <1>11, <1>12 DEF Parts

LEMMA PullupCheckInv ==
  ASSUME PbufInv, NEW p \in Procs, NEW s \in Slots, pullup_check(p, s)
  PROVE  Parts' /\ WriteExclusive'
<1>z. PICK z \in Zindexes : z = zindex[s]
  BY DEF PbufInv, Parts, PbufTypeOK
<1>0. /\ PbufTypeOK /\ Counts /\ Singles /\ CallsAlone /\ InUse
      /\ WriteExclusive /\ call[p] = "idle" /\ by[s] = p /\ Holds(s, z)
  BY <1>z DEF PbufInv, Parts, pullup_check, Idle, Holds
<1>1. /\ UNCHANGED <<refcnt, tag, zindex, by, one_ref>>
      /\ call' = [call EXCEPT ![p] = "pullup"] /\ at' = [at EXCEPT ![p] = z]
      /\ \A o : Held(o)' <=> Held(o)
  BY <1>z, SameHeld DEF pullup_check, refs, Begin
<1>2. /\ \A q \in Procs : \A y : InCall(q, y)' <=> InCall(q, y)
      /\ \A t \in Slots : \A y : Holds(t, y)' <=> Holds(t, y)
  BY <1>0, <1>1 DEF InCall, PbufTypeOK, Holds
<1>3. PbufTypeOK'
  BY <1>0, <1>1 DEF PbufTypeOK
<1>4. Counts' /\ Singles'
  BY <1>0, <1>1 DEF Counts, Singles, Counted, Holds
<1>5. CallsAlone' /\ InUse'
  BY <1>0, <1>1, <1>2 DEF CallsAlone, InUse
<1>6. \A t \in Slots : Holds(t, z) => t = s
  BY <1>z, LastOne, PartsOf DEF PbufInv, pullup_check
<1>7. WriteExclusive'
  <2>1. /\ call'[p] = "pullup" /\ at'[p] = z /\ by'[s] = p
        /\ \A q \in Procs : q # p => call'[q] = call[q] /\ at'[q] = at[q]
    BY <1>0, <1>1 DEF PbufTypeOK
  <2>2. ASSUME NEW q \in Procs, call'[q] = "pullup"
        PROVE  \E t \in Slots : /\ by'[t] = q
                                /\ tag'[t] # "unset" /\ zindex'[t] = at'[q]
                                /\ \A u \in Slots :
                                     tag'[u] # "unset" /\ zindex'[u] = at'[q] => u = t
    BY <1>0, <1>1, <1>6, <2>1, <2>2 DEF WriteExclusive, Holds
  <2> QED BY <2>2 DEF WriteExclusive, Holds
<1> QED BY <1>3, <1>4, <1>5, <1>7 DEF Parts

LEMMA PassInv ==
  ASSUME PbufInv, NEW p \in Procs, NEW q \in Procs, NEW s \in Slots,
         Pass(p, q, s)
  PROVE  Parts' /\ WriteExclusive'
<1>0. /\ PbufTypeOK /\ Counts /\ Singles /\ CallsAlone /\ InUse
      /\ WriteExclusive /\ call[p] = "idle" /\ by[s] = p
  BY DEF PbufInv, Parts, Pass, Idle
<1>1. /\ UNCHANGED <<refcnt, tag, zindex, call, at, one_ref>>
      /\ by' = [by EXCEPT ![s] = q]
      /\ \A o : Held(o)' <=> Held(o)
  BY SameHeld DEF Pass, refs, calls
<1>2. PbufTypeOK'
  BY <1>0, <1>1 DEF PbufTypeOK
<1>3. Counts' /\ Singles'
  BY <1>0, <1>1 DEF Counts, Singles, Counted, Holds
<1>4. CallsAlone' /\ InUse'
  BY <1>0, <1>1 DEF CallsAlone, InUse, Holds, InCall
<1>5. WriteExclusive'
  BY <1>0, <1>1 DEF WriteExclusive, Holds, PbufTypeOK
<1> QED BY <1>2, <1>3, <1>4, <1>5 DEF Parts

LEMMA PbufNextInv == PbufInv /\ [PbufNext]_pbuf_vars => PbufInv'
<1> SUFFICES ASSUME PbufInv, [PbufNext]_pbuf_vars PROVE PbufInv'
  OBVIOUS
<1>1. Inv'
  BY StepRefines, NextInv DEF PbufInv
<1>2. CASE UNCHANGED pbuf_vars
  <2>1. /\ UNCHANGED <<refcnt, tag, zindex, by, call, at, one_ref>>
        /\ \A o : Held(o)' <=> Held(o)
    BY <1>2, SameHeld DEF pbuf_vars, refs, calls
  <2>2. Parts'
    BY <2>1 DEF PbufInv, Parts, PbufTypeOK, Counts, Singles, CallsAlone,
                InUse, Counted, Holds, InCall
  <2>3. WriteExclusive'
    BY <2>1 DEF PbufInv, WriteExclusive, Holds
  <2> QED BY <1>1, <2>2, <2>3 DEF PbufInv
<1>3. CASE PbufNext
  <2>1. Parts' /\ WriteExclusive'
    BY <1>3, PbufAllocInv, PbufReleaseInv, PullupCopyInv, PbufSetInv,
       PbufConvertInv, PbufFreeInv, PullupCheckInv, PbufShareInv, PassInv
    DEF PbufNext
  <2> QED BY <1>1, <2>1 DEF PbufInv
<1> QED BY <1>2, <1>3

-----------------------------------------------------------------------------
(* For any number of threads, pbufs and iovecs: the count of a pbuf is the *)
(* number of iovecs that share it, whatever clones and frees race, and its *)
(* object is given back when, and only when, the last of them is gone.     *)
THEOREM RefsExactly == PbufSpec => []RefsCounted
<1>1. PbufInv => RefsCounted
  BY PartsOf DEF PbufInv
<1> QED BY <1>1, PbufInitInv, PbufNextInv, PTL DEF PbufSpec

(* For any number of threads, pbufs and iovecs: the pull-up writes into a  *)
(* pbuf only while no other packet has it.                                 *)
THEOREM WritesAlone == PbufSpec => []WriteExclusive
<1>1. PbufInv => WriteExclusive
  BY DEF PbufInv
<1> QED BY <1>1, PbufInitInv, PbufNextInv, PTL DEF PbufSpec

(* The promises of the allocator, to these clients. *)
THEOREM PbufsExclusive == PbufSpec => [](NoSharing /\ FreeListSound)
BY UsesAllocator, Exclusive, FreeListCorrect, PTL
=============================================================================
