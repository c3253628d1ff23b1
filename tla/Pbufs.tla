------------------------------- MODULE Pbufs --------------------------------
(***************************************************************************)
(* The reference counts of packet buffers (include/xdp2/pvbuf.h) over the  *)
(* object allocator they come from.  Threads or processes keep pbufs in    *)
(* the iovecs of their packets; an iovec belongs to one of them at a time, *)
(* and packets are passed on.  The steps are those that others can see:    *)
(* the locked sections of the allocator and the accesses to refcnt, each   *)
(* with the writes of its thread to its own iovecs that go with it.        *)
(***************************************************************************)
EXTENDS ObjAllocator, FiniteSets

CONSTANT Slots    \* iovecs

ASSUME SlotsFinite == IsFiniteSet(Slots)

VARIABLES
  one_ref,    \* pvmgr->alloc_one_ref
  refcnt,     \* pallocator->refcnt
  tag,        \* tag[s]: XDP2_PADDR_TAG_PBUF or _PBUF_1REF, or "unset"
  zindex,     \* zindex[s]: the pbuf of a set iovec
  by,         \* by[s]: whose packet the iovec is part of
  call,       \* call[p]: what p is in the middle of
  at          \* at[p]: with which pbuf

refs == <<refcnt, tag, zindex>>
calls == <<call, at>>
pbuf_vars == <<vars, refs, by, calls, one_ref>>

Zindexes == 0 .. NumObjs - 1

PbufInit ==
  /\ Init
  /\ one_ref \in BOOLEAN
  /\ refcnt = [z \in Zindexes |-> 0]
  /\ tag = [s \in Slots |-> "unset"]
  /\ zindex = [s \in Slots |-> 0]
  /\ by \in [Slots -> Procs]
  /\ call = [p \in Procs |-> "idle"]
  /\ at = [p \in Procs |-> 0]

-----------------------------------------------------------------------------
Begin(p, what, z) ==
  /\ call' = [call EXCEPT ![p] = what]
  /\ at' = [at EXCEPT ![p] = z]

Idle(p) == call[p] = "idle"

Return(p) == Begin(p, "idle", 0)

(* p's address of the object of pbuf z. *)
pbuf(p, z) == index_to_obj(p, z + BaseIndex)

set_ent(s, t, z) ==
  /\ tag' = [tag EXCEPT ![s] = t]
  /\ zindex' = [zindex EXCEPT ![s] = z]

unset_ent(s) == set_ent(s, "unset", 0)

(* ___xdp2_pbuf_alloc, for a caller with room for a pbuf: an object from   *)
(* the allocator, if there is one ...                                      *)
pbuf_alloc(p) ==
  /\ Idle(p) /\ \E s \in Slots : by[s] = p /\ tag[s] = "unset"
  /\ alloc(p)
  /\ IF num_free = 0
       THEN UNCHANGED calls
       ELSE Begin(p, "alloc",
                  obj_to_index(p, translate(p, free_list)) - BaseIndex)
  /\ UNCHANGED <<refs, by, one_ref>>

(* ... and its count, before __xdp2_pbuf_alloc makes the address that goes *)
(* into an iovec.                                                          *)
pbuf_set(p, s) ==
  /\ call[p] = "alloc" /\ by[s] = p /\ tag[s] = "unset"
  /\ refcnt' = IF one_ref THEN refcnt ELSE [refcnt EXCEPT ![at[p]] = 1]
  /\ set_ent(s, IF one_ref THEN "1ref" ELSE "pbuf", at[p])
  /\ Return(p)
  /\ UNCHANGED <<vars, by, one_ref>>

(* xdp2_pvbuf_iovec_set_paddr_ent_and_bump_refcnt: iovec t shares the pbuf *)
(* of s.                                                                   *)
pbuf_share(p, s, t) ==
  /\ Idle(p) /\ by[s] = p /\ by[t] = p
  /\ tag[s] = "pbuf" /\ tag[t] = "unset"
  /\ set_ent(t, "pbuf", zindex[s])
  /\ refcnt' = [refcnt EXCEPT ![zindex[s]] = @ + 1]
  /\ UNCHANGED <<vars, by, calls, one_ref>>

(* Mutant: the pbuf gets no initial count. *)
Mpbuf_convert_NoCount(p, s) ==
  /\ Idle(p) /\ by[s] = p /\ tag[s] = "1ref"
  /\ set_ent(s, "pbuf", zindex[s])
  /\ UNCHANGED <<vars, refcnt, by, calls, one_ref>>

(* What cloning does first to a pbuf with a single reference. *)
pbuf_convert(p, s) ==
  /\ Idle(p) /\ by[s] = p /\ tag[s] = "1ref"
  /\ set_ent(s, "pbuf", zindex[s])
  /\ refcnt' = [refcnt EXCEPT ![zindex[s]] = @ + 1]
  /\ UNCHANGED <<vars, by, calls, one_ref>>

(* Whoever frees the object has its index only: the object is now p's. *)
take(p, z) ==
  \/ pbuf(p, z) \in held[p] /\ UNCHANGED vars
  \/ \E q \in Procs : HandOver(q, p, pbuf(q, z))

(* __xdp2_pbuf_free: the count goes down, and the last one ... *)
pbuf_free(p, s) ==
  LET z == zindex[s]
  IN /\ Idle(p) /\ by[s] = p /\ tag[s] # "unset"
     /\ unset_ent(s)
     /\ refcnt' = IF tag[s] = "1ref" THEN refcnt
                  ELSE [refcnt EXCEPT ![z] = @ - 1]
     /\ IF tag[s] = "1ref" \/ refcnt[z] = 1
          THEN Begin(p, "free", z) /\ take(p, z)
          ELSE UNCHANGED <<vars, calls>>
     /\ UNCHANGED <<by, one_ref>>

(* ... frees the object. *)
pbuf_release(p) ==
  /\ call[p] = "free"
  /\ free(p, pbuf(p, at[p]))
  /\ Return(p)
  /\ UNCHANGED <<refs, by, one_ref>>

(* Mutant: a pull-up in place whatever the count. *)
Mpullup_check_Shared(p, s) ==
  /\ Idle(p) /\ by[s] = p /\ tag[s] = "pbuf"
  /\ Begin(p, "pullup", zindex[s])
  /\ UNCHANGED <<vars, refs, by, one_ref>>

(* __xdp2_pvbuf_pullup finds that a pbuf has no other reference ...        *)
pullup_check(p, s) ==
  /\ Idle(p) /\ by[s] = p /\ tag[s] # "unset"
  /\ refcnt[zindex[s]] = 1
  /\ Begin(p, "pullup", zindex[s])
  /\ UNCHANGED <<vars, refs, by, one_ref>>

(* ... and then copies into it. *)
pullup_copy(p) ==
  /\ call[p] = "pullup"
  /\ \E q \in Procs : Use(q, pbuf(q, at[p]))
  /\ Return(p)
  /\ UNCHANGED <<refs, by, one_ref>>

(* The packet is passed on, with its iovecs. *)
Pass(p, q, s) ==
  /\ Idle(p) /\ by[s] = p
  /\ by' = [by EXCEPT ![s] = q]
  /\ UNCHANGED <<vars, refs, calls, one_ref>>

PbufNext ==
  \E p \in Procs :
    \/ pbuf_alloc(p)
    \/ pbuf_release(p)
    \/ pullup_copy(p)
    \/ \E s \in Slots :
         \/ pbuf_set(p, s)
         \/ pbuf_convert(p, s)
         \/ pbuf_free(p, s)
         \/ pullup_check(p, s)
         \/ \E t \in Slots : pbuf_share(p, s, t)
         \/ \E q \in Procs : Pass(p, q, s)

PbufSpec == PbufInit /\ [][PbufNext]_pbuf_vars

-----------------------------------------------------------------------------
(* Every index is one of the arrays refcnt and of the allocator. *)
PbufTypeOK ==
  /\ one_ref \in BOOLEAN
  /\ refcnt \in [Zindexes -> Int]
  /\ tag \in [Slots -> {"unset", "pbuf", "1ref"}]
  /\ zindex \in [Slots -> Zindexes]
  /\ by \in [Slots -> Procs]
  /\ call \in [Procs -> {"idle", "alloc", "free", "pullup"}]
  /\ at \in [Procs -> Zindexes]

(* The iovecs that count, those that hold pbuf z, and the calls that have  *)
(* it when no iovec does.                                                  *)
Counted(z) == {s \in Slots : tag[s] = "pbuf" /\ zindex[s] = z}

Holds(s, z) == tag[s] # "unset" /\ zindex[s] = z

InCall(p, z) == call[p] \in {"alloc", "free"} /\ at[p] = z

(* The count of a pbuf is the number of iovecs that share it, so that no   *)
(* interleaving of clones and frees frees it early or never; a pbuf marked *)
(* as having a single reference has no other and, as the assertions when   *)
(* it is cloned or freed say, a count of zero; an object that the          *)
(* allocator has given out belongs to iovecs, or to the one call that is   *)
(* allocating or freeing it.                                               *)
RefsCounted ==
  /\ PbufTypeOK
  /\ \A z \in Zindexes :
       /\ refcnt[z] = Cardinality(Counted(z))
       /\ \A s, t \in Slots :
            Holds(s, z) /\ Holds(t, z) /\ tag[s] = "1ref" => s = t
       /\ \A p \in Procs : InCall(p, z) =>
            /\ \A s \in Slots : ~ Holds(s, z)
            /\ \A q \in Procs : InCall(q, z) => p = q
       /\ Held(Start + z * ObjSize) <=>
            (\E s \in Slots : Holds(s, z)) \/ (\E p \in Procs : InCall(p, z))

(* The count that a pull-up read is still true when it writes into the     *)
(* buffer: no other packet has the bytes that change.                      *)
WriteExclusive ==
  \A p \in Procs : call[p] = "pullup" =>
    \E s \in Slots :
      /\ by[s] = p /\ Holds(s, at[p])
      /\ \A t \in Slots : Holds(t, at[p]) => t = s
=============================================================================
