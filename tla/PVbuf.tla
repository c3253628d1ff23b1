-------------------------------- MODULE PVbuf --------------------------------
(***************************************************************************)
(* Packets as trees of packet vector buffers (include/xdp2/pvbuf.h,        *)
(* lib/xdp2/pvbuf.c) and packet vectors (pvpkt.h, pvpkt.c).  A pvbuf is an *)
(* array of iovecs; a set iovec holds a reference to a piece of a buffer   *)
(* or another pvbuf with the length of what is below it (0: unknown).      *)
(*                                                                         *)
(* The store s of the operators is [pv, buf, err]: pv[p] maps the set      *)
(* iovecs of the allocated pvbuf p to their entries, buf[b] is the         *)
(* reference count and the bytes of the allocated buffer b, and err names  *)
(* the assertion, or the access outside of the store, that ended the       *)
(* program.  Every call is one step: a pvbuf has one owner.                *)
(***************************************************************************)
EXTENDS Integers, SequencesExt

CONSTANTS
  PvIds,         \* pvbufs; 0 is no pvbuf
  NumIovecs,     \* NumIovecs[p]: number of iovecs of p, its size
  DefaultSize,   \* default_pvbuf_size
  OneLine,       \* the smallest pvbufs have size 0 (one cache line)
  Bufs,          \* pbufs and buffers with short and long addresses
  BufSize,       \* alloc_size, one size of pbufs is configured
  MaxLen,        \* XDP2_PVBUF_MAX_LEN
  ListSize,      \* size of the pvbufs that continue a packet vector
  Handles,       \* variables of the caller that hold packets
  Lens,          \* lengths that the caller passes
  Offs,          \* offsets that the caller passes
  Pieces,        \* types and lengths of the buffers that are added
  Starts,        \* packets to start from
  MaxOps         \* bound on the number of calls

ASSUME PVbufAssumption ==
  /\ PvIds \subseteq Nat \ {0} /\ Bufs \subseteq Nat \ {0}
  /\ \A p \in PvIds : NumIovecs[p] \in Nat /\ NumIovecs[p] >= 4
  /\ BufSize \in Nat \ {0} /\ MaxLen \in Nat /\ BufSize < MaxLen
  /\ OneLine \in BOOLEAN /\ MaxOps \in Nat
  /\ Lens \subseteq Nat /\ Offs \subseteq Nat

-----------------------------------------------------------------------------
(* Entries.  A long address takes two iovecs. *)
Pv(p, len) == [t |-> "pvbuf", id |-> p, len |-> len]

Ref(t, b, off, len) == [t |-> t, buf |-> b, off |-> off, len |-> len]

Word2 == [t |-> "long2"]

IsPv(e) == e.t = "pvbuf"

Width(e) == IF e.t = "long" THEN 2 ELSE 1

(* The length that an iovec for a pvbuf can hold, and the length after     *)
(* adding b bytes to a.                                                    *)
Known(len) == IF len < MaxLen THEN len ELSE 0

(* Mutant: an unknown length is taken for none. *)
Mjoin_len_ZeroIsNone(a, b) == Known(a + b)

join_len(a, b) == IF b # 0 THEN Known(a + b) ELSE 0

Fail(s, where) == IF s.err = "none" THEN [s EXCEPT !.err = where] ELSE s

Failed(s) == s.err # "none"

Weight(s, p) == Cardinality(DOMAIN s.pv[p])

Slots(p) == [k \in 1 .. NumIovecs[p] |-> k - 1]

(* The iovecs that are set, but second words of long addresses, in order. *)
SetSlots(s, p) ==
  SelectSeq(Slots(p), LAMBDA i : i \in DOMAIN s.pv[p] /\ s.pv[p][i] # Word2)

(* set_ent, clear_ent and *iovec = e. *)
set_ent(s, p, i, e) ==
  IF i \notin 0 .. NumIovecs[p] - 1 \/ i \in DOMAIN s.pv[p]
    THEN Fail(s, "set_ent")
    ELSE [s EXCEPT !.pv[p] = @ @@ (i :> e)]

set_paddr_ent(s, p, i, e) ==
  IF e.t = "long" THEN set_ent(set_ent(s, p, i, e), p, i + 1, Word2)
  ELSE set_ent(s, p, i, e)

Overwrite(s, p, i, e) == [s EXCEPT !.pv[p] = (i :> e) @@ @]

clear_ent(s, p, i) == [s EXCEPT !.pv[p] = Restrict(@, DOMAIN @ \ {i})]

-----------------------------------------------------------------------------
(* Allocation.  0 if there is no free object. *)
First(S) == IF S = {} THEN 0 ELSE Min(S)

FreeBuf(s) == First(Bufs \ DOMAIN s.buf)

FreePv(s, size) ==
  First({p \in PvIds \ DOMAIN s.pv : NumIovecs[p] = size})

(* ___xdp2_pvbuf_alloc without smaller_pvbuf_size: smaller sizes are       *)
(* tried, and the smaller size of size 0 is 0.                             *)
FreePvAny(s, size) ==
  LET sizes == {NumIovecs[p] : p \in {q \in PvIds \ DOMAIN s.pv :
                                        NumIovecs[q] <= size}}
  IN IF sizes = {} THEN 0 ELSE FreePv(s, Max(sizes))

TakePv(s, p) == [s EXCEPT !.pv = @ @@ (p :> << >>)]

(* The bytes that the owner of a new buffer puts into it: no other buffer  *)
(* has any of them.                                                        *)
Fill(s) ==
  LET used == UNION {Range(s.buf[b].data) : b \in DOMAIN s.buf}
      k == CHOOSE k \in 0 .. Cardinality(used) :
             /\ (k * BufSize + 1 .. (k + 1) * BufSize) \cap used = {}
             /\ \A j \in 0 .. k - 1 :
                  (j * BufSize + 1 .. (j + 1) * BufSize) \cap used # {}
  IN [i \in 1 .. BufSize |-> k * BufSize + i]

TakeBuf(s, b, refcnt) ==
  [s EXCEPT !.buf = @ @@ (b :> [refcnt |-> refcnt, data |-> Fill(s)])]

PbufType(one_ref) == IF one_ref THEN "pbuf1" ELSE "pbuf"

(* ___xdp2_pbuf_alloc: single reference pbufs leave the count at zero. *)
TakePbuf(s, b, one_ref) == TakeBuf(s, b, IF one_ref THEN 0 ELSE 1)

bump_refcnt(s, e) ==
  IF e.t = "pbuf1" THEN Fail(s, "bump_refcnt")
  ELSE [s EXCEPT !.buf[e.buf].refcnt = @ + 1]

(* __xdp2_pbuf_free and the free functions of short and long addresses. *)
buf_free(s, e) ==
  LET last == [s EXCEPT !.buf = Restrict(@, DOMAIN @ \ {e.buf})]
  IN IF e.buf \notin DOMAIN s.buf THEN Fail(s, "buf_free")
     ELSE IF e.t = "pbuf1"
       THEN IF s.buf[e.buf].refcnt # 0 THEN Fail(s, "free_1ref") ELSE last
     ELSE IF s.buf[e.buf].refcnt = 1 THEN last
     ELSE [s EXCEPT !.buf[e.buf].refcnt = @ - 1]

DropPv(s, p) == [s EXCEPT !.pv = Restrict(@, DOMAIN @ \ {p})]

RECURSIVE pvbuf_free(_, _)

free_ent(s, p, i) ==
  LET e == s.pv[p][i]
  IN IF IsPv(e) THEN pvbuf_free(s, e.id)
     ELSE IF e.t = "long" /\ i + 1 \notin DOMAIN s.pv[p]
       THEN Fail(s, "free_long")
     ELSE buf_free(s, e)

(* __xdp2_pvbuf_free *)
pvbuf_free(s, p) ==
  IF Failed(s) THEN s
  ELSE IF p \notin DOMAIN s.pv THEN Fail(s, "pvbuf_free")
  ELSE LET t == FoldLeft(LAMBDA a, i : IF Failed(a) THEN a ELSE free_ent(a, p, i),
                         s, SetSlots(s, p))
       IN IF Failed(t) THEN t ELSE DropPv(t, p)

Ok(s) == [s |-> s, ok |-> ~ Failed(s)]

No(s) == [s |-> s, ok |-> FALSE]

(* The loop of __xdp2_pvbuf_alloc_params. *)
RECURSIVE alloc_pbufs(_, _, _, _, _)
alloc_pbufs(s, p, off, size, one_ref) ==
  LET b == FreeBuf(s)
      e == Ref(PbufType(one_ref), b, 0, Min({BufSize, size}))
      t == set_ent(TakePbuf(s, b, one_ref), p, off, e)
      left == size - BufSize
      q == FreePvAny(t, DefaultSize)
  IN IF b = 0 THEN No(s)
     ELSE IF left <= 0 THEN Ok(t)
     ELSE IF off + 1 < NumIovecs[p] - 2
       THEN alloc_pbufs(t, p, off + 1, left, one_ref)
     ELSE IF q = 0 THEN No(IF OneLine THEN Fail(t, "hang") ELSE t)
     ELSE alloc_pbufs(set_ent(TakePv(t, q), p, off + 1, Pv(q, Known(left))),
                      q, 0, left, one_ref)

(* __xdp2_pvbuf_alloc_params: id is 0 if something could not be allocated. *)
alloc_params(s, size, off, one_ref) ==
  LET p == FreePv(s, DefaultSize)
      r == alloc_pbufs(TakePv(s, p), p, off, size, one_ref)
  IN IF p = 0 THEN [s |-> s, id |-> 0]
     ELSE IF size = 0 THEN [s |-> TakePv(s, p), id |-> p]
     ELSE IF r.ok THEN [s |-> r.s, id |-> p]
     ELSE [s |-> pvbuf_free(r.s, p), id |-> 0]

-----------------------------------------------------------------------------
(* Prepend and append.  The slot is -1 if there is none. *)
ShiftTo(s, p, first) ==
  LET set == DOMAIN s.pv[p]
      Nth(k) == CHOOSE i \in set : Cardinality({j \in set : j < i}) = k
  IN [s EXCEPT !.pv[p] = [j \in first .. first + Weight(s, p) - 1 |->
                            @[Nth(j - first)]]]

(* __xdp2_pvbuf_find_prepend_slot: before the first iovec, else after a    *)
(* shift to the tail.                                                      *)
find_prepend_slot(s, p, compress) ==
  LET set == DOMAIN s.pv[p]
      n == NumIovecs[p]
      w == Weight(s, p)
  IN IF set = {} THEN [s |-> s, i |-> n - 1]
     ELSE IF 0 \notin set THEN [s |-> s, i |-> Min(set) - 1]
     ELSE IF compress /\ w # n
       THEN [s |-> ShiftTo(s, p, n - w), i |-> n - w - 1]
     ELSE [s |-> s, i |-> -1]

(* __xdp2_pvbuf_find_append_slot: after the last iovec, else after a shift *)
(* to the head.                                                            *)
find_append_slot(s, p, compress) ==
  LET set == DOMAIN s.pv[p]
      n == NumIovecs[p]
      w == Weight(s, p)
  IN IF set = {} THEN [s |-> s, i |-> 0]
     ELSE IF n - 1 \notin set THEN [s |-> s, i |-> Max(set) + 1]
     ELSE IF compress /\ w < n - 1 THEN [s |-> ShiftTo(s, p, 0), i |-> w]
     ELSE [s |-> s, i |-> -1]

(* __xdp2_pvbuf_check_single: a pvbuf with one entry is replaced by it. *)
check_single(s, p, i) ==
  LET q == s.pv[p][i].id
  IN IF Failed(s) \/ Weight(s, q) # 1 THEN s
     ELSE DropPv(Overwrite(s, p, i, s.pv[q][Min(DOMAIN s.pv[q])]), q)

(* The length of an entry that moves into a new pvbuf, so that join_len    *)
(* keeps an unknown length unknown.                                        *)
MovedLen(e) == IF IsPv(e) /\ e.len = 0 THEN MaxLen ELSE e.len

(* __xdp2_pvbuf_prepend_paddr_into_iovec_new_pvbuf: a new pvbuf takes the  *)
(* place of the entry in iovec i, with that entry last and e before it.    *)
prepend_new_pvbuf(s, p, i, e) ==
  LET q == FreePv(s, DefaultSize)
      old == s.pv[p][i]
      pos == NumIovecs[q] - Width(old)
      t == set_paddr_ent(TakePv(s, q), q, pos, old)
      u == set_paddr_ent(t, q, pos - Width(e), e)
      v == IF old.t = "long" THEN clear_ent(u, p, i) ELSE u
  IN IF q = 0 THEN No(s)
     ELSE Ok(Overwrite(v, p, i + Width(old) - 1,
                       Pv(q, join_len(MovedLen(old), e.len))))

RECURSIVE prepend(_, _, _, _), prepend_into_iovec(_, _, _, _, _)

(* ___xdp2_pvbuf_prepend_paddr_into_iovec and                              *)
(* __xdp2_pvbuf_prepend_pvbuf_into_iovec.                                  *)
prepend_into_iovec(s, p, i, e, compress) ==
  LET old == s.pv[p][i]
      r == prepend(s, old.id, e, compress)
      len == IF old.len = 0 THEN 0 ELSE join_len(old.len, e.len)
      t == Overwrite(r.s, p, i, [old EXCEPT !.len = len])
  IN IF i \notin DOMAIN s.pv[p] THEN No(Fail(s, "prepend_into_iovec"))
     ELSE IF ~ IsPv(old) THEN prepend_new_pvbuf(s, p, i, e)
     ELSE IF ~ r.ok THEN r
     ELSE Ok(IF IsPv(e) /\ compress THEN check_single(t, p, i) ELSE t)

(* __xdp2_pvbuf_prepend_pvbuf_compress, __xdp2_pvbuf_append_pvbuf_compress *)
(* of a pvbuf with at most one entry: the entry is put in place of the     *)
(* pvbuf, with the result r, and the pvbuf freed.  If there is none,       *)
(* iovec[64] is read.                                                      *)
Single(s, e) ==
  LET x == s.pv[e.id][Min(DOMAIN s.pv[e.id])]
  IN IF IsPv(x) THEN Pv(x.id, e.len) ELSE x

put_single(s, e, r) ==
  IF Weight(s, e.id) = 0 THEN No(Fail(s, "empty_pvbuf"))
  ELSE IF r.ok THEN Ok(DropPv(r.s, e.id)) ELSE r

(* __xdp2_pvbuf_prepend_paddr and __xdp2_pvbuf_prepend_pvbuf: put e in     *)
(* front of p.  Not ok if a pvbuf could not be allocated.                  *)
prepend(s, p, e, compress) ==
  LET f == find_prepend_slot(s, p, compress)
      long == e.t = "long"
  IN IF Failed(s) THEN No(s)
     ELSE IF IsPv(e) /\ compress /\ Weight(s, e.id) <= 1
       THEN put_single(s, e, prepend(s, p, Single(s, e), TRUE))
     ELSE IF f.i > 0 \/ (f.i = 0 /\ ~ long)
       THEN Ok(set_paddr_ent(f.s, p, f.i + 1 - Width(e), e))
     ELSE prepend_into_iovec(f.s, p, IF f.i = 0 THEN 1 ELSE 0, e, compress)

(* __xdp2_pvbuf_append_paddr_into_iovec_new_pvbuf: as above, with the      *)
(* entry of iovec i first and e after it.  i may be the second word of a   *)
(* long address, or not be set.                                            *)
append_new_pvbuf(s, p, i, e) ==
  LET q == FreePv(s, DefaultSize)
      isset == i \in DOMAIN s.pv[p]
      j == IF isset /\ s.pv[p][i] = Word2 THEN i - 1 ELSE i
      old == s.pv[p][j]
      t == TakePv(s, q)
      u == set_paddr_ent(set_paddr_ent(t, q, 0, old), q, Width(old), e)
      v == IF old.t = "long" THEN clear_ent(u, p, j) ELSE u
  IN IF q = 0 THEN No(s)
     ELSE IF ~ isset
       THEN Ok(Overwrite(set_paddr_ent(t, q, 0, e), p, i, Pv(q, Known(e.len))))
     ELSE Ok(Overwrite(v, p, j + Width(old) - 1,
                       Pv(q, join_len(MovedLen(old), e.len))))

RECURSIVE append(_, _, _, _), append_into_iovec(_, _, _, _, _)

(* ___xdp2_pvbuf_append_paddr_into_iovec and                               *)
(* __xdp2_pvbuf_append_pvbuf_into_iovec.                                   *)
append_into_iovec(s, p, i, e, compress) ==
  LET isset == i \in DOMAIN s.pv[p]
      old == s.pv[p][i]
      r == append(s, old.id, e, compress)
      len == IF old.len = 0 THEN 0 ELSE join_len(old.len, e.len)
  IN IF ~ isset /\ IsPv(e) THEN Ok(set_ent(s, p, i, e))
     ELSE IF ~ isset \/ ~ IsPv(old) THEN append_new_pvbuf(s, p, i, e)
     ELSE IF ~ r.ok THEN r
     ELSE Ok(Overwrite(r.s, p, i, [old EXCEPT !.len = len]))

(* __xdp2_pvbuf_append_paddr and __xdp2_pvbuf_append_pvbuf. *)
append(s, p, e, compress) ==
  LET f == find_append_slot(s, p, compress)
      n == NumIovecs[p]
  IN IF Failed(s) THEN No(s)
     ELSE IF IsPv(e) /\ compress /\ Weight(s, e.id) <= 1
       THEN put_single(s, e, append(s, p, Single(s, e), TRUE))
     ELSE IF f.i \in 0 .. n - Width(e)
       THEN Ok(set_paddr_ent(f.s, p, f.i, e))
     ELSE append_into_iovec(f.s, p, n - 1, e, compress)

-----------------------------------------------------------------------------
(* Pop.  end is "hdr" or "trl"; with copy, the bytes that are dropped are  *)
(* collected in out.  [s, n, out]: n is the number of bytes still to drop. *)
Bytes(s, e) == SubSeq(s.buf[e.buf].data, e.off + 1, e.off + e.len)

Collect(end, out, bytes) == IF end = "hdr" THEN out \o bytes ELSE bytes \o out

(* Mutant: the second word of a long address stays. *)
Mpop_from_paddr_OneWord(a, p, i, end) ==
  LET e == a.s.pv[p][i]
      keep == e.len - a.n
      bytes == Bytes(a.s, e)
      off == IF end = "hdr" THEN e.off + a.n ELSE e.off
  IN IF keep <= 0
       THEN [s |-> clear_ent(buf_free(a.s, e), p, i), n |-> - keep,
             out |-> Collect(end, a.out, bytes)]
       ELSE [s |-> Overwrite(a.s, p, i, [e EXCEPT !.off = off, !.len = keep]),
             n |-> 0,
             out |-> Collect(end, a.out,
                             IF end = "hdr" THEN SubSeq(bytes, 1, a.n)
                             ELSE SubSeq(bytes, keep + 1, e.len))]

(* __xdp2_pvbuf_pop_from_paddr_iovec,                                      *)
(* __xdp2_pvbuf_pop_trailers_from_paddr_iovec.                             *)
pop_from_paddr(a, p, i, end) ==
  LET e == a.s.pv[p][i]
      keep == e.len - a.n
      bytes == Bytes(a.s, e)
      t == clear_ent(buf_free(a.s, e), p, i)
      off == IF end = "hdr" THEN e.off + a.n ELSE e.off
  IN IF keep <= 0
       THEN [s |-> IF e.t = "long" THEN clear_ent(t, p, i + 1) ELSE t,
             n |-> - keep, out |-> Collect(end, a.out, bytes)]
       ELSE [s |-> Overwrite(a.s, p, i, [e EXCEPT !.off = off, !.len = keep]),
             n |-> 0,
             out |-> Collect(end, a.out,
                             IF end = "hdr" THEN SubSeq(bytes, 1, a.n)
                             ELSE SubSeq(bytes, keep + 1, e.len))]

(* __xdp2_pvbuf_try_iovec_uplevel: if p has only a pvbuf, which is not     *)
(* larger, the entries of that pvbuf become those of p.                    *)
try_iovec_uplevel(s, p) ==
  LET i == Min(DOMAIN s.pv[p])
      e == s.pv[p][i]
      t == ShiftTo(s, e.id, 0)
  IN IF Failed(s) \/ Weight(s, p) # 1 \/ ~ IsPv(e) THEN s
     ELSE IF NumIovecs[e.id] > NumIovecs[p] THEN s
     ELSE DropPv([s EXCEPT !.pv[p] = t.pv[e.id]], e.id)

RECURSIVE pop(_, _, _, _, _, _), pop_iovec(_, _, _, _, _, _),
          pop_from_pvbuf(_, _, _, _, _, _)

(* Mutant: bytes popped from a pvbuf of unknown length are not deducted    *)
(* when that pvbuf is freed.                                               *)
Mpop_from_pvbuf_KeepsCount(a, p, i, end, compress, copy) ==
  LET e == a.s.pv[p][i]
      r == pop(a.s, e.id, a.n, end, compress, copy)
      out == Collect(end, a.out, r.out)
      freed(s) == [s |-> clear_ent(pvbuf_free(s, e.id), p, i),
                   n |-> a.n - e.len, out |-> out]
      rest == Overwrite(r.s, p, i, [e EXCEPT !.len = @ - r.n])
  IN IF e.len # 0 /\ a.n >= e.len
       THEN IF ~ copy THEN [freed(a.s) EXCEPT !.out = a.out] ELSE freed(r.s)
     ELSE IF e.len # 0
       THEN [s |-> IF compress THEN check_single(rest, p, i) ELSE rest,
             n |-> 0, out |-> out]
     ELSE IF r.n < a.n \/ Weight(r.s, e.id) = 0 THEN freed(r.s)
     ELSE [s |-> r.s, n |-> 0, out |-> out]

(* __xdp2_pvbuf_pop_from_pvbuf_iovec,                                      *)
(* __xdp2_pvbuf_pop_trailers_from_pvbuf_iovec.  If the length is known,    *)
(* less than it has to leave exactly the rest.                             *)
pop_from_pvbuf(a, p, i, end, compress, copy) ==
  LET e == a.s.pv[p][i]
      r == pop(a.s, e.id, a.n, end, compress, copy)
      out == Collect(end, a.out, r.out)
      freed(s) == [s |-> clear_ent(pvbuf_free(s, e.id), p, i),
                   n |-> IF e.len = 0 THEN a.n - r.n ELSE a.n - e.len,
                   out |-> out]
      rest == Overwrite(r.s, p, i, [e EXCEPT !.len = @ - r.n])
  IN IF e.len # 0 /\ a.n >= e.len
       THEN IF ~ copy THEN [freed(a.s) EXCEPT !.out = a.out]
            ELSE IF r.n # e.len THEN [a EXCEPT !.s = Fail(r.s, "pop_all")]
            ELSE freed(r.s)
     ELSE IF e.len # 0
       THEN IF r.n # a.n THEN [a EXCEPT !.s = Fail(r.s, "pop_part")]
            ELSE [s |-> IF compress THEN check_single(rest, p, i) ELSE rest,
                  n |-> 0, out |-> out]
     ELSE IF r.n < a.n \/ Weight(r.s, e.id) = 0 THEN freed(r.s)
     ELSE [s |-> r.s, n |-> 0, out |-> out]

(* One turn of the loops of __xdp2_pvbuf_pop_hdrs and                      *)
(* __xdp2_pvbuf_pop_trailers; only the former checks for a single entry    *)
(* whatever became of a pvbuf.                                             *)
pop_iovec(a, p, i, end, compress, copy) ==
  LET r == pop_from_pvbuf(a, p, i, end, compress, copy)
  IN IF a.n = 0 \/ Failed(a.s) THEN a
     ELSE IF ~ IsPv(a.s.pv[p][i]) THEN pop_from_paddr(a, p, i, end)
     ELSE IF compress /\ end = "hdr" /\ i \in DOMAIN r.s.pv[p]
             /\ IsPv(r.s.pv[p][i])
       THEN [r EXCEPT !.s = check_single(r.s, p, i)]
     ELSE r

(* __xdp2_pvbuf_pop_hdrs and __xdp2_pvbuf_pop_trailers: n in the result is *)
(* the number of bytes dropped.                                            *)
pop(s, p, n, end, compress, copy) ==
  LET order == IF end = "hdr" THEN SetSlots(s, p) ELSE Reverse(SetSlots(s, p))
      Popped(r) == [s |-> IF compress THEN try_iovec_uplevel(r.s, p) ELSE r.s,
                  n |-> n - r.n, out |-> r.out]
  IN IF n = 0 THEN [s |-> s, n |-> 0, out |-> << >>]
     ELSE Popped(FoldLeft(LAMBDA a, i : pop_iovec(a, p, i, end, compress, copy),
                        [s |-> s, n |-> n, out |-> << >>], order))

-----------------------------------------------------------------------------
(* Pull up and pull tail. *)
TailRoom(e) == BufSize - (e.off + e.len)

(* __xdp2_pvbuf_prepend_pbuf_pullup: if there is no slot, what is in slot  *)
(* zero goes into slot one.  The second word of a long address is cleared  *)
(* even if that failed.                                                    *)
put_first(f, p, e, compress) ==
  LET t == f.s
      old == t.pv[p][0]
      long == old.t = "long"
      r == prepend_into_iovec(t, p, Width(old), old, compress)
      u == IF long THEN clear_ent(r.s, p, 1) ELSE r.s
  IN IF f.i >= 0 THEN Ok(set_ent(t, p, f.i, e))
     ELSE IF 1 \notin DOMAIN t.pv[p]
       THEN Ok(Overwrite(Overwrite(t, p, 1, old), p, 0, e))
     ELSE IF r.ok THEN Ok(Overwrite(u, p, 0, e))
     ELSE No(u)

prepend_pbuf_pullup(s, p, e, compress) ==
  put_first(find_prepend_slot(s, p, compress), p, e, compress)

(* __xdp2_pvbuf_append_pbuf_pulltail: a pvbuf in the last slot goes into   *)
(* the slot before.                                                        *)
append_pbuf_pulltail(s, p, e) ==
  LET f == find_append_slot(s, p, FALSE)
      n == NumIovecs[p]
      old == s.pv[p][n - 1]
      r == append_into_iovec(s, p, n - 2, old, FALSE)
  IN IF f.i >= 0 THEN Ok(set_ent(s, p, f.i, e))
     ELSE IF ~ IsPv(old) THEN append_new_pvbuf(s, p, n - 2, e)
     ELSE IF r.ok THEN Ok(Overwrite(r.s, p, n - 1, e))
     ELSE r

put_end(s, p, e, end, compress) ==
  IF end = "hdr" THEN prepend_pbuf_pullup(s, p, e, compress)
  ELSE append_pbuf_pulltail(s, p, e)

(* The bytes of the data of a buffer after writing at an offset. *)
WriteAt(data, off, bytes) ==
  [k \in DOMAIN data |-> IF k - off \in DOMAIN bytes THEN bytes[k - off]
                         ELSE data[k]]

(* A pbuf that could not be put into the packet is freed. *)
OrFree(r, e) == IF r.ok THEN r ELSE No(buf_free(r.s, e))

(* Mutant: the bytes are moved over those of the pbuf. *)
Mpull_into_Over(r, p, e, len, end, compress) ==
  IF Failed(r.s) THEN No(r.s)
  ELSE IF r.n # len - e.len THEN No(Fail(r.s, "short_pull"))
  ELSE OrFree(put_end([r.s EXCEPT !.buf[e.buf].data =
                         WriteAt(@, e.off, r.out)],
                      p, [e EXCEPT !.len = len], end, compress), e)

(* __xdp2_pvbuf_pullup from "doit" on and the end of                       *)
(* __xdp2_pvbuf_pulltail: the bytes of the pop r are moved behind those of *)
(* the pbuf e, which is put at an end of the packet.                       *)
pull_into(r, p, e, len, end, compress) ==
  IF Failed(r.s) THEN No(r.s)
  ELSE IF r.n # len - e.len THEN No(Fail(r.s, "short_pull"))
  ELSE OrFree(put_end([r.s EXCEPT !.buf[e.buf].data =
                         WriteAt(@, e.off + e.len, r.out)],
                      p, [e EXCEPT !.len = len], end, compress), e)

(* __xdp2_pvbuf_pullup.  Not ok: NULL, the packet may have lost bytes. *)
pullup(s, p, len, compress, one_ref) ==
  LET i == Min(DOMAIN s.pv[p])
      e == s.pv[p][i]
      b == FreeBuf(s)
      own == /\ e.t = "pbuf" /\ compress /\ s.buf[e.buf].refcnt = 1
             /\ TailRoom(e) >= len
      t == IF own THEN clear_ent(s, p, i) ELSE TakePbuf(s, b, one_ref)
      into == IF own THEN e ELSE Ref(PbufType(one_ref), b, 0, 0)
  IN IF Weight(s, p) = 0 THEN No(s)
     ELSE IF ~ IsPv(e) /\ e.len >= len THEN Ok(s)
     ELSE IF ~ own /\ (len > BufSize \/ b = 0) THEN No(s)
     ELSE pull_into(pop(t, p, len - into.len, "hdr", compress, TRUE), p, into,
                    len, "hdr", compress)

(* xdp2_pvbuf_find_last_iovec: its length, 0 if there is none. *)
RECURSIVE last_iovec_len(_, _)
last_iovec_len(s, p) ==
  LET slots == SetSlots(s, p)
      e == s.pv[p][Last(slots)]
  IN IF slots = << >> THEN 0
     ELSE IF IsPv(e) THEN last_iovec_len(s, e.id)
     ELSE e.len

(* __xdp2_pvbuf_pulltail: never compresses. *)
pulltail(s, p, len, one_ref) ==
  LET b == FreeBuf(s)
  IN IF last_iovec_len(s, p) >= len /\ SetSlots(s, p) # << >> THEN Ok(s)
     ELSE IF len > BufSize \/ b = 0 THEN No(s)
     ELSE pull_into(pop(TakePbuf(s, b, one_ref), p, len, "trl", FALSE, TRUE),
                    p, Ref(PbufType(one_ref), b, 0, 0), len, "trl", FALSE)

-----------------------------------------------------------------------------
(* Iteration.  The iovecs below p that hold buffers, as <<pvbuf, iovec>>. *)
RECURSIVE iterate_iovec(_, _)
iterate_iovec(s, p) ==
  FlattenSeq([k \in 1 .. Len(SetSlots(s, p)) |->
                LET i == SetSlots(s, p)[k]
                IN IF IsPv(s.pv[p][i]) THEN iterate_iovec(s, s.pv[p][i].id)
                   ELSE << <<p, i>> >>])

(* __xdp2_pvbuf_calc_length: deep digs into pvbufs of a known length. *)
RECURSIVE calc_length(_, _, _)
calc_length(s, p, deep) ==
  FoldLeft(LAMBDA n, i :
             LET e == s.pv[p][i]
             IN n + IF IsPv(e) /\ (deep \/ e.len = 0)
                      THEN calc_length(s, e.id, deep) ELSE e.len,
           0, SetSlots(s, p))

-----------------------------------------------------------------------------
(* Reading and writing through __xdp2_pvbuf_iterate: a callback is folded  *)
(* over the entries.  The iterator it has the offset and the length that   *)
(* remain, a length of 0 is all; stop says that the callback returned      *)
(* false, after which it is called no more.                                *)
iterate(s, p) ==
  LET at == iterate_iovec(s, p)
  IN [k \in DOMAIN at |-> s.pv[at[k][1]][at[k][2]]]

(* How every callback begins: all of e is before the offset, or else the   *)
(* part of it that is wanted.                                              *)
Before(it, e) == it.stop \/ (it.off # 0 /\ e.len <= it.off)

Skip(it, e) == IF it.stop THEN it ELSE [it EXCEPT !.off = @ - e.len]

Part(it, e) ==
  LET len == e.len - it.off
  IN [e EXCEPT !.off = @ + it.off,
               !.len = IF it.len = 0 THEN len ELSE Min({it.len, len})]

(* How they end, after n bytes. *)
Advance(it, n) ==
  [it EXCEPT !.off = 0, !.len = IF @ = 0 THEN 0 ELSE @ - n,
             !.stop = it.len # 0 /\ it.len = n]

Iterator(off, len) == [off |-> off, len |-> len, stop |-> FALSE, out |-> << >>]

(* __xdp2_pvbuf_copy_pvbuf_to_data: out is the data, n what is returned. *)
copy_to_data(s, p, off, len) ==
  LET copy(it, e) ==
        LET f == Part(it, e)
        IN IF Before(it, e) THEN Skip(it, e)
           ELSE [Advance(it, f.len) EXCEPT !.out = @ \o Bytes(s, f)]
      r == FoldLeft(copy, Iterator(off, len), iterate(s, p))
  IN [out |-> r.out, n |-> len - r.len]

(* __xdp2_pvbuf_copy_data_to_pvbuf: out is the store. *)
copy_to_pvbuf(s, p, data, off, len) ==
  LET copy(it, e) ==
        LET f == Part(it, e)
        IN IF Before(it, e) THEN Skip(it, e)
           ELSE [Advance(it, f.len) EXCEPT
                   !.out.s.buf[e.buf].data =
                      WriteAt(@, f.off, SubSeq(it.out.data, 1, f.len)),
                   !.out.data = SubSeq(@, f.len + 1, Len(@))]
      r == FoldLeft(copy, [Iterator(off, len) EXCEPT
                             !.out = [s |-> s, data |-> data]], iterate(s, p))
  IN [s |-> r.out.s, n |-> len - r.len]

(* __xdp2_pvbuf_checksum.  What is added up is kept: each byte with its    *)
(* place, 0 or 1, in a word of sixteen bits.  A byte that completes the    *)
(* word of the previous buffer is not counted in the length.               *)
Words(bytes, first) == [i \in DOMAIN bytes |-> <<bytes[i], (first + i - 1) % 2>>]

(* Mutant: every buffer begins a new word. *)
Mchecksum_NoOddByte(s, p, off, len) ==
  LET sum(it, e) ==
        LET f == Part(it, e)
        IN IF Before(it, e) THEN Skip(it, e)
           ELSE [Advance(it, f.len) EXCEPT !.out = @ \o Words(Bytes(s, f), 0)]
  IN FoldLeft(sum, Iterator(off, len), iterate(s, p)).out

checksum(s, p, off, len) ==
  LET sum(it, e) ==
        LET f == Part(it, e)
            joined == IF it.odd /\ f.len # 0 THEN 1 ELSE 0
            n == f.len - joined
        IN IF Before(it, e) THEN Skip(it, e)
           ELSE [Advance(it, n) EXCEPT
                   !.out = @ \o Words(Bytes(s, f), joined),
                   !.odd = n % 2 = 1 \/ (@ /\ joined = 0)]
  IN FoldLeft(sum, Iterator(off, len) @@ [odd |-> FALSE], iterate(s, p)).out

(* __xdp2_pvbuf_make_iovecs: num is -1 if there are more than max.  It is  *)
(* a length of 0 that is counted down, as an unsigned number.              *)
SizeT == 4096   \* 2^64, more than any length

make_iovecs(s, p, max, off, len) ==
  LET put(it, e) ==
        LET f == Part(it, e)
        IN IF ~ it.stop /\ Len(it.out) >= max
             THEN [it EXCEPT !.more = TRUE, !.stop = TRUE]
           ELSE IF Before(it, e) THEN Skip(it, e)
           ELSE [it EXCEPT !.off = 0, !.out = Append(@, Bytes(s, f)),
                           !.len = IF @ = 0 THEN (0 - f.len) % SizeT ELSE @,
                           !.stop = it.len = 0 /\ f.len = 0]
      r == FoldLeft(put, Iterator(off, len) @@ [more |-> FALSE], iterate(s, p))
  IN [iovecs |-> r.out, num |-> IF r.more THEN -1 ELSE Len(r.out)]

-----------------------------------------------------------------------------
(* Clones. *)

(* __xdp2_pvbuf_iterate_iovec_clone_common.  a is the iterator: its        *)
(* store, the pvbuf being built, the next iovec in it, and the length and  *)
(* offset that remain.  e is the piece to add, or << >>; a single          *)
(* reference pbuf becomes a normal one.                                    *)
clone_common(a, x) ==
  LET e == a.s.pv[x[1]][x[2]]
      f == [e EXCEPT !.t = IF @ = "pbuf1" THEN "pbuf" ELSE @]
      t == [Overwrite(a.s, x[1], x[2], f) EXCEPT
              !.buf[e.buf].refcnt = IF e.t = "pbuf1" THEN 1 ELSE @]
  IN IF a.len = 0 \/ e.len = 0 THEN [a |-> a, e |-> << >>]
     ELSE IF a.off >= e.len
       THEN [a |-> [a EXCEPT !.off = @ - e.len], e |-> << >>]
     ELSE IF e.t = "pbuf1" /\ a.s.buf[e.buf].refcnt # 0
       THEN [a |-> [a EXCEPT !.s = Fail(@, "clone_1ref")], e |-> << >>]
     ELSE [a |-> [a EXCEPT !.s = t, !.off = 0],
           e |-> [f EXCEPT !.off = @ + a.off,
                           !.len = Min({a.len, @ - a.off})]]

(* __xdp2_check_clone_add_iovec: continue in a new pvbuf, linked last. *)
clone_add_iovec(a, len, size) ==
  LET q == FreePv(a.s, size)
      n == NumIovecs[a.pv]
  IN IF q = 0 THEN [a EXCEPT !.enomem = TRUE]
     ELSE [a EXCEPT !.s = set_ent(TakePv(@, q), a.pv, n - 1, Pv(q, len)),
                    !.pv = q, !.index = 0]

(* xdp2_pvbuf_iovec_set_paddr_ent_and_bump_refcnt *)
set_and_bump(s, p, i, e) == bump_refcnt(set_paddr_ent(s, p, i, e), e)

(* __xdp2_pvbuf_iterate_clone_pvbuf.  Without memory the iteration goes    *)
(* on: -1 is true.                                                         *)
iterate_clone(a, x) ==
  LET c == clone_common(a, x)
      e == c.e
      max == NumIovecs[a.pv] - Width(e)
      full == a.index > max \/ (a.index = max /\ e.len # a.len)
      b == IF full THEN clone_add_iovec(c.a, Known(a.len), DefaultSize) ELSE c.a
  IN IF Failed(a.s) THEN a
     ELSE IF e = << >> THEN c.a
     ELSE IF full /\ FreePv(a.s, DefaultSize) = 0 THEN b
     ELSE [b EXCEPT !.s = set_and_bump(@, b.pv, b.index, e),
                    !.len = @ - e.len, !.index = @ + Width(e)]

(* __xdp2_pvbuf_fixup_iovec_length: a pvbuf is set as if it were a pbuf,   *)
(* and the second word of a long address is taken for a first one.         *)
fixup_iovec_length(s, p) ==
  IF \E i \in DOMAIN s.pv[p] : s.pv[p][i].t \in {"pvbuf", "long2"}
    THEN Fail(s, "fixup") ELSE s

(* Mutant: without memory the pvbufs of the clone are forgotten. *)
Mclone_Leaks(s, p, off, len) ==
  LET q == FreePv(s, DefaultSize)
      a == FoldLeft(iterate_clone,
                    [s |-> TakePv(s, q), pv |-> q, index |-> 0, off |-> off,
                     len |-> len, enomem |-> FALSE], iterate_iovec(s, p))
  IN IF q = 0 THEN [s |-> s, id |-> 0]
     ELSE IF a.enomem THEN [s |-> a.s, id |-> 0]
     ELSE [s |-> IF a.len = 0 THEN a.s ELSE fixup_iovec_length(a.s, q),
           id |-> q]

(* __xdp2_pvbuf_clone: id is 0 if there is no memory. *)
clone(s, p, off, len) ==
  LET q == FreePv(s, DefaultSize)
      a == FoldLeft(iterate_clone,
                    [s |-> TakePv(s, q), pv |-> q, index |-> 0, off |-> off,
                     len |-> len, enomem |-> FALSE], iterate_iovec(s, p))
  IN IF q = 0 THEN [s |-> s, id |-> 0]
     ELSE IF a.enomem THEN [s |-> pvbuf_free(a.s, q), id |-> 0]
     ELSE [s |-> IF a.len = 0 THEN a.s ELSE fixup_iovec_length(a.s, q),
           id |-> q]

-----------------------------------------------------------------------------
(* Segmentation.  The callback of the caller puts one more byte, in a      *)
(* buffer of type hdr, in front of each packet; hdr is "none" without a    *)
(* callback.                                                               *)
(* __xdp2_pvpkt_iterate_do_cb for the last packet of the vector. *)
do_cb(a, hdr) ==
  LET e == a.s.pv[a.pv][a.index - 1]
      b == FreeBuf(a.s)
      h == Ref(hdr, b, 0, 1)
      r == prepend(TakeBuf(a.s, b, 1), e.id, h, FALSE)
  IN IF hdr = "none" THEN a
     ELSE IF b = 0 THEN [a EXCEPT !.enomem = TRUE]
     ELSE IF ~ r.ok THEN [a EXCEPT !.s = buf_free(r.s, h), !.enomem = TRUE]
     ELSE [a EXCEPT !.s = Overwrite(r.s, a.pv, a.index - 1,
                                    Pv(e.id, IF e.len = 0 THEN 0
                                             ELSE Known(e.len + 1)))]

(* The vector has another pvbuf once the room for e is used up. *)
next_slot(a, e) ==
  IF a.index >= NumIovecs[a.pv] - 2 * Width(e) + 1
    THEN clone_add_iovec(a, 0, ListSize) ELSE a

(* Mutant: the bytes that begin the packet are not counted. *)
Mnew_packet_NeedsAll(a, e, seg, hdr) ==
  LET size == Min({seg, e.len})
      f == [e EXCEPT !.len = size]
      q == FreePv(a.s, DefaultSize)
      t == set_and_bump(TakePv(a.s, q), q, 2, f)
  IN IF a.enomem THEN a
     ELSE IF hdr = "none" /\ (e.len >= seg \/ e.len = a.len)
       THEN [a EXCEPT !.s = set_and_bump(@, a.pv, a.index, f),
                      !.index = @ + Width(e)]
     ELSE IF q = 0 THEN [a EXCEPT !.enomem = TRUE]
     ELSE [a EXCEPT !.s = set_ent(t, a.pv, a.index, Pv(q, size)),
                    !.need = Min({seg, a.len}), !.index = @ + 1]

(* A new packet begins with the first size bytes of e: they are put into   *)
(* the vector itself, or into a pvbuf of the packet with room before them. *)
new_packet(a, e, seg, hdr) ==
  LET size == Min({seg, e.len})
      f == [e EXCEPT !.len = size]
      q == FreePv(a.s, DefaultSize)
      t == set_and_bump(TakePv(a.s, q), q, 2, f)
  IN IF a.enomem THEN a
     ELSE IF hdr = "none" /\ (e.len >= seg \/ e.len = a.len)
       THEN [a EXCEPT !.s = set_and_bump(@, a.pv, a.index, f),
                      !.index = @ + Width(e)]
     ELSE IF q = 0 THEN [a EXCEPT !.enomem = TRUE]
     ELSE [a EXCEPT !.s = set_ent(t, a.pv, a.index, Pv(q, size)),
                    !.need = Min({seg, a.len}) - size, !.index = @ + 1]

(* The loop of __xdp2_pvpkt_iterate_segment_pvbuf over what is left of e.  *)
RECURSIVE segment_leaf(_, _, _, _)
segment_leaf(a, e, seg, hdr) ==
  LET Rest(size) == [e EXCEPT !.off = @ + size, !.len = @ - size]
      c == IF a.index # 0 THEN do_cb(a, hdr) ELSE a
      size == Min({a.need, e.len})
      pkt == a.s.pv[a.pv][a.index - 1]
      r == append(a.s, pkt.id, [e EXCEPT !.len = size], FALSE)
      len == IF pkt.len = 0 THEN 0 ELSE Known(pkt.len + size)
      x == Overwrite(bump_refcnt(r.s, e), a.pv, a.index - 1, Pv(pkt.id, len))
  IN IF e.len = 0 \/ a.enomem \/ Failed(a.s) THEN a
     ELSE IF a.need = 0
       THEN segment_leaf(IF c.enomem THEN c
                         ELSE new_packet(next_slot(c, e), e, seg, hdr),
                         Rest(Min({seg, e.len})), seg, hdr)
     ELSE IF ~ r.ok THEN [a EXCEPT !.s = r.s, !.enomem = TRUE]
     ELSE segment_leaf([a EXCEPT !.s = x, !.need = @ - size],
                       Rest(size), seg, hdr)

(* One call of the iterator: what is left of the length after e. *)
segment_iovec(c, seg, hdr) ==
  LET l == segment_leaf(c.a, c.e, seg, hdr)
  IN IF c.e = << >> THEN c.a
     ELSE [l EXCEPT !.len = IF l.enomem THEN @ ELSE @ - c.e.len]

(* The last callback.  A failure of it is taken for a result of zero. *)
segment_end(a, q, hdr) ==
  IF a.enomem THEN [s |-> pvbuf_free(a.s, q), id |-> 0]
  ELSE [s |-> IF a.index # 0 /\ ~ Failed(a.s) THEN do_cb(a, hdr).s ELSE a.s,
        id |-> q]

(* __xdp2_pvpkt_segment and __xdp2_pvpkt_segment_cb: id is 0 if something  *)
(* could not be allocated.                                                 *)
segment(s, p, len, seg, hdr) ==
  LET q == FreePv(s, DefaultSize)
      Leaf(a, x) == IF a.enomem \/ Failed(a.s) THEN a
                    ELSE segment_iovec(clone_common(a, x), seg, hdr)
      ist == [s |-> TakePv(s, q), pv |-> q, index |-> 0, off |-> 0,
              len |-> len, need |-> 0, enomem |-> FALSE]
  IN IF q = 0 THEN [s |-> s, id |-> 0]
     ELSE segment_end(FoldLeft(Leaf, ist, iterate_iovec(s, p)), q, hdr)

(* __xdp2_pvpkt_iterate: the entries that are packets, the last iovec      *)
(* continues the vector.                                                   *)
RECURSIVE pvpkt_iterate(_, _)
pvpkt_iterate(s, p) ==
  LET n == NumIovecs[p]
      own == SelectSeq(Slots(p), LAMBDA i : i \in DOMAIN s.pv[p] /\ i < n - 1)
  IN [k \in 1 .. Len(own) |-> s.pv[p][own[k]]]
     \o IF n - 1 \in DOMAIN s.pv[p] THEN pvpkt_iterate(s, s.pv[p][n - 1].id)
        ELSE << >>

-----------------------------------------------------------------------------
VARIABLES
  mem,      \* the store
  root,     \* root[h]: the pvbuf in the variable h of the caller, or 0
  vec,      \* the variables that hold packet vectors
  one_ref,  \* alloc_one_ref, never changed
  ops,      \* number of calls made
  seen      \* seen[h]: the packets in h, as the caller reads them

vars == <<mem, root, vec, one_ref, ops, seen>>

(* What the caller sees: the bytes of a packet, the packets of a vector. *)
Flatten(s, p) ==
  LET at == iterate_iovec(s, p)
  IN FlattenSeq([k \in 1 .. Len(at) |-> Bytes(s, s.pv[at[k][1]][at[k][2]])])

PacketBytes(s, e) == IF IsPv(e) THEN Flatten(s, e.id) ELSE Bytes(s, e)

VectorPackets(s, p) ==
  LET es == SelectSeq(pvpkt_iterate(s, p), LAMBDA e : e # Word2)
  IN [k \in 1 .. Len(es) |-> PacketBytes(s, es[k])]

View(s, r, v) ==
  [h \in Handles |-> IF r[h] = 0 THEN {}
                     ELSE IF h \in v THEN {VectorPackets(s, r[h])}
                     ELSE {<<Flatten(s, r[h])>>}]

(* A packet to start from: alloc_params, and then k buffers of one type    *)
(* are added at one end.                                                   *)
Nothing == [pv |-> << >>, buf |-> << >>, err |-> "none"]

NewBuf(s, t, len, ref1) ==
  Ref(IF t = "pbuf" THEN PbufType(ref1) ELSE t, FreeBuf(s), 0, len)

TakeNew(s, e) == TakeBuf(s, e.buf, IF e.t = "pbuf1" THEN 0 ELSE 1)

add(s, p, e, end, compress) ==
  IF end = "hdr" THEN prepend(s, p, e, compress) ELSE append(s, p, e, compress)

(* A new buffer is added; the caller frees what was not consumed. *)
add_new(s, p, t, len, end, compress, ref1) ==
  LET e == NewBuf(s, t, len, ref1)
      r == add(TakeNew(s, e), p, e, end, compress)
  IN IF e.buf = 0 THEN s
     ELSE IF r.ok \/ Failed(r.s) THEN r.s ELSE buf_free(r.s, e)

RECURSIVE Build(_, _, _, _, _)
Build(s, p, x, k, ref1) ==
  IF k = 0 THEN s
  ELSE Build(add_new(s, p, x.t, x.len, x.end, FALSE, ref1), p, x, k - 1, ref1)

Init ==
  /\ one_ref \in BOOLEAN
  /\ \E x \in Starts : \E h \in Handles :
       LET r == alloc_params(Nothing, x.size, x.off, one_ref)
       IN /\ mem = Build(r.s, r.id, x, x.k, one_ref)
          /\ root = [g \in Handles |-> IF g = h THEN r.id ELSE 0]
  /\ vec = {}
  /\ ops = 0
  /\ seen = View(mem, root, vec)

Plain(h) == root[h] # 0 /\ h \notin vec

(* One call: the caller's variables and the store after it. *)
Return(s, r, v) ==
  /\ ~ Failed(mem) /\ ops < MaxOps
  /\ mem' = s /\ root' = r /\ vec' = v
  /\ seen' = IF Failed(s) THEN seen ELSE View(s, r, v)
  /\ ops' = ops + 1 /\ UNCHANGED one_ref

Set(h, id) == [root EXCEPT ![h] = id]

(* The packet or the vector that a call has made goes into h. *)
Made(h, r, isvec) ==
  Return(r.s, Set(h, r.id), IF isvec /\ r.id # 0 THEN vec \cup {h} ELSE vec)

(* xdp2_pvbuf_alloc_empty *)
AllocEmpty(h, size) ==
  LET p == FreePvAny(mem, size)
      s == IF p # 0 THEN TakePv(mem, p)
           ELSE IF OneLine THEN Fail(mem, "hang") ELSE mem
  IN root[h] = 0 /\ Return(s, Set(h, p), vec)

(* xdp2_pvbuf_alloc_params *)
Alloc(h, size, off) ==
  /\ root[h] = 0 /\ off < DefaultSize - 1
  /\ Made(h, alloc_params(mem, size, off, one_ref), FALSE)

(* xdp2_pvbuf_free *)
Free(h) ==
  root[h] # 0 /\ Return(pvbuf_free(mem, root[h]), Set(h, 0), vec \ {h})

(* xdp2_pvbuf_prepend_paddr and xdp2_pvbuf_append_paddr of a new buffer. *)
AddBuf(h, end, t, len, compress) ==
  /\ Plain(h)
  /\ Return(add_new(mem, root[h], t, len, end, compress, one_ref), root, vec)

(* xdp2_pvbuf_prepend_pvbuf and xdp2_pvbuf_append_pvbuf: of g to h, with   *)
(* its length or without.                                                  *)
AddPv(h, g, end, known, compress) ==
  LET len == IF known THEN Known(Len(Flatten(mem, root[g]))) ELSE 0
      e == Pv(root[g], len)
      r == add(mem, root[h], e, end, compress)
  IN /\ h # g /\ Plain(h) /\ Plain(g)
     /\ Return(r.s, IF r.ok THEN Set(g, 0) ELSE root, vec)

(* xdp2_pvbuf_pop_hdrs and xdp2_pvbuf_pop_trailers *)
Pop(h, n, end, compress) ==
  Plain(h) /\ Return(pop(mem, root[h], n, end, compress, FALSE).s, root, vec)

(* xdp2_pvbuf_pullup and xdp2_pvbuf_pulltail.  After NULL the caller frees *)
(* the packet, as it is told to.                                           *)
pull(h, len, end, compress) ==
  IF end = "hdr" THEN pullup(mem, root[h], len, compress, one_ref)
  ELSE pulltail(mem, root[h], len, one_ref)

OrFreed(h, r) ==
  IF r.ok \/ Failed(r.s) THEN Return(r.s, root, vec)
  ELSE Return(pvbuf_free(r.s, root[h]), Set(h, 0), vec)

Pull(h, len, end, compress) ==
  Plain(h) /\ OrFreed(h, pull(h, len, end, compress))

(* xdp2_pvbuf_copy_data_to_pvbuf of new bytes. *)
NewData(s, n) ==
  LET used == UNION {Range(s.buf[b].data) : b \in DOMAIN s.buf} \cup {0}
  IN [i \in 1 .. n |-> Max(used) + i]

CopyIn(h, off, len) ==
  LET data == NewData(mem, Len(Flatten(mem, root[h])))
  IN /\ Plain(h)
     /\ Return(copy_to_pvbuf(mem, root[h], data, off, len).s, root, vec)

(* xdp2_pvbuf_clone into g. *)
Clone(h, g, off, len) ==
  Plain(h) /\ root[g] = 0 /\ Made(g, clone(mem, root[h], off, len), FALSE)

(* xdp2_pvpkt_segment and xdp2_pvpkt_segment_cb into g. *)
Segment(h, g, seg, hdr) ==
  /\ Plain(h) /\ root[g] = 0 /\ seg # 0
  /\ Made(g, segment(mem, root[h], Len(Flatten(mem, root[h])), seg, hdr), TRUE)

(* The program has stopped, or the caller makes no more calls. *)
Done == (Failed(mem) \/ ops = MaxOps) /\ UNCHANGED vars

Next ==
  \/ \E h \in Handles :
       \/ \E p \in PvIds : AllocEmpty(h, NumIovecs[p])
       \/ \E size \in Lens, off \in Offs : Alloc(h, size, off)
       \/ Free(h)
       \/ \E end \in {"hdr", "trl"}, compress \in BOOLEAN :
            \/ \E x \in Pieces : AddBuf(h, end, x[1], x[2], compress)
            \/ \E g \in Handles, known \in BOOLEAN :
                 AddPv(h, g, end, known, compress)
            \/ \E n \in Lens : Pop(h, n, end, compress)
            \/ \E n \in Lens \ {0} : Pull(h, n, end, compress)
       \/ \E off \in Offs, len \in Lens : CopyIn(h, off, len)
       \/ \E g \in Handles :
            \/ \E off \in Offs, len \in Lens : Clone(h, g, off, len)
            \/ \E seg \in Lens, hdr \in {"none", "short", "long"} :
                 Segment(h, g, seg, hdr)
  \/ Done

Spec == Init /\ [][Next]_vars
-----------------------------------------------------------------------------
(* Calls that stop the program although the comments of the code allow     *)
(* them: a clone beyond the end of a packet that needed a second pvbuf or  *)
(* has a long address, pulling more bytes than there are, and adding an    *)
(* empty pvbuf with compression.  CallsAsDocumented is about them.         *)
KnownFaults == {"fixup", "short_pull", "empty_pvbuf"}

Running == ~ Failed(mem)

Live == {<<p, i>> \in UNION {{p} \X DOMAIN mem.pv[p] : p \in DOMAIN mem.pv} :
           mem.pv[p][i] # Word2}

EntryAt(x) == mem.pv[x[1]][x[2]]

(* What __xdp2_pvbuf_check and the checks of addresses expect of a pvbuf   *)
(* after any sequence of calls: it has entries only in its iovecs, and the *)
(* trees hold nothing but pvbufs, pieces inside of buffers and whole long  *)
(* addresses.  And, but for the KnownFaults, no call stops the program: no *)
(* iovec is set twice, no buffer or pvbuf is freed twice, no pop finds     *)
(* less than the length kept for a pvbuf, and no single reference pbuf has *)
(* a reference count.                                                      *)
WellFormed ==
  /\ mem.err \in {"none"} \cup KnownFaults
  /\ DOMAIN mem.pv \subseteq PvIds /\ DOMAIN mem.buf \subseteq Bufs
  /\ root \in [Handles -> PvIds \cup {0}] /\ vec \subseteq Handles
  /\ \A p \in DOMAIN mem.pv : DOMAIN mem.pv[p] \subseteq 0 .. NumIovecs[p] - 1
  /\ Running =>
       \A p \in DOMAIN mem.pv : \A i \in DOMAIN mem.pv[p] :
         LET e == mem.pv[p][i]
         IN CASE e.t = "pvbuf" -> e.id \in DOMAIN mem.pv /\ e.len < MaxLen
              [] e.t = "long2" -> /\ i - 1 \in DOMAIN mem.pv[p]
                                  /\ mem.pv[p][i - 1].t = "long"
              [] OTHER -> /\ e.len \in 1 .. BufSize - e.off
                          /\ e.t = "long" => /\ i + 1 \in DOMAIN mem.pv[p]
                                             /\ mem.pv[p][i + 1] = Word2

(* Nothing leaks and nothing is shared by mistake: every pvbuf is in one   *)
(* variable or one iovec, and the reference count of every buffer is the   *)
(* number of iovecs that refer to it, also after a clone or a segmentation *)
(* that failed halfway, or a pull-up that did and the free after it.  A    *)
(* pull-up that leaves half of a long address is the exception: the free   *)
(* then stops the program (CallsAsDocumented).                             *)
RefsExact ==
  Running =>
    /\ \A p \in DOMAIN mem.pv :
         Cardinality({h \in Handles : root[h] = p})
         + Cardinality({x \in Live : IsPv(EntryAt(x)) /\ EntryAt(x).id = p}) = 1
    /\ \A b \in Bufs :
         LET refs == {x \in Live : ~ IsPv(EntryAt(x)) /\ EntryAt(x).buf = b}
         IN IF b \notin DOMAIN mem.buf THEN refs = {}
            ELSE /\ refs # {}
                 /\ \/ /\ mem.buf[b].refcnt = Cardinality(refs)
                       /\ \A x \in refs : EntryAt(x).t # "pbuf1"
                    \/ /\ mem.buf[b].refcnt = 0 /\ Cardinality(refs) = 1
                       /\ \A x \in refs : EntryAt(x).t = "pbuf1"

(* "Deep dig length check": the length kept for a pvbuf, if it is known,   *)
(* is that of the bytes below it, and calc_length gives the length of the  *)
(* packet with and without deep_dig.                                       *)
LengthsTrue ==
  Running =>
    /\ \A x \in Live : IsPv(EntryAt(x)) /\ EntryAt(x).len # 0 =>
         EntryAt(x).len = calc_length(mem, EntryAt(x).id, TRUE)
    /\ \A h \in Handles : Plain(h) =>
         \A deep \in BOOLEAN :
           calc_length(mem, root[h], deep) = Len(Flatten(mem, root[h]))

(* Whatever the trees look like, the caller sees strings of bytes: every   *)
(* call changes the packets as Packets says, and only those it names.      *)
Abstract == INSTANCE Packets WITH pkt <- seen
ImplementsPackets == Abstract!Spec

-----------------------------------------------------------------------------
(* What single calls return, for every packet that the caller may have     *)
(* when it makes another call.                                             *)
MayCall == Running /\ ops < MaxOps

Cut(x, n, end) ==
  IF end = "hdr" THEN [out |-> SubSeq(x, 1, n), rest |-> SubSeq(x, n + 1, Len(x))]
  ELSE [out |-> SubSeq(x, Len(x) - n + 1, Len(x)), rest |-> SubSeq(x, 1, Len(x) - n)]

PopExact(r, h, c, copy) ==
  /\ ~ Failed(r.s) /\ r.n = Len(c.out)
  /\ copy => r.out = c.out
  /\ Flatten(r.s, root[h]) = c.rest

(* Popping n bytes at either end drops min(n, length) bytes, returns them  *)
(* in order, and leaves the others, whether lengths of pvbufs are known or *)
(* not.                                                                    *)
PopsExact ==
  MayCall =>
    \A h \in Handles : Plain(h) =>
      LET x == Flatten(mem, root[h])
      IN \A n \in 0 .. Len(x) + 1, end \in {"hdr", "trl"} :
           \A compress, copy \in BOOLEAN :
             PopExact(pop(mem, root[h], n, end, compress, copy), h,
                      Cut(x, Min({n, Len(x)}), end), copy)

(* The bytes in the first or last buffer of the packet. *)
EndPiece(s, p, end) ==
  LET at == iterate_iovec(s, p)
      x == IF end = "hdr" THEN at[1] ELSE Last(at)
  IN s.pv[x[1]][x[2]]

Together(r, h, n, end) ==
  /\ ~ Failed(r.s)
  /\ r.ok => /\ EndPiece(r.s, root[h], end).len >= n
             /\ View(r.s, root, vec) = seen

(* A pull-up or pull-tail of bytes that the packet has does not stop the   *)
(* program; if it succeeds they are in one buffer, the packet has the      *)
(* bytes it had, and no other packet has changed.  Whether the packet can  *)
(* be freed after a failure is a question of CallsAsDocumented.            *)
PullsTogether ==
  MayCall =>
    \A h \in Handles : Plain(h) =>
      LET x == Flatten(mem, root[h])
      IN \A n \in 1 .. Len(x), end \in {"hdr", "trl"}, compress \in BOOLEAN :
           Together(pull(h, n, end, compress), h, n, end)

IsClone(r, x) ==
  /\ ~ Failed(r.s)
  /\ r.id # 0 => Flatten(r.s, r.id) = x
  /\ View(r.s, root, vec) = seen

(* Reading a packet piece by piece gives what reading it as one string     *)
(* would: a clone or copy_pvbuf_to_data any part of it, checksum and       *)
(* make_iovecs, to which the length 0 is passed, all of it from an offset  *)
(* on.  A byte at an odd place is added in the same half of a word         *)
(* wherever buffers end, and the packet stays as it was.                   *)
ReadsAgree ==
  MayCall =>
    \A h \in Handles : Plain(h) =>
      LET x == Flatten(mem, root[h])
      IN \A off \in 0 .. Len(x) :
           LET rest == SubSeq(x, off + 1, Len(x))
               v == make_iovecs(mem, root[h], 2, off, 0)
           IN /\ \A len \in 0 .. Len(rest) :
                   IsClone(clone(mem, root[h], off, len), SubSeq(rest, 1, len))
              /\ \A len \in 0 .. Len(x) + 1 :
                   LET r == copy_to_data(mem, root[h], off, len)
                       n == Min({len, Len(rest)})
                   IN /\ r.out = IF len = 0 THEN rest ELSE SubSeq(rest, 1, n)
                      /\ r.n = n
              /\ checksum(mem, root[h], off, 0) = Words(rest, 0)
              /\ v.num >= 0 => FlattenSeq(v.iovecs) = rest
              /\ v.num < 0 => Len(iterate_iovec(mem, root[h])) > 2

-----------------------------------------------------------------------------
(* Other owners have taken the pvbufs that were left. *)
Exhausted(s) ==
  [s EXCEPT !.pv = @ @@ [p \in PvIds \ DOMAIN @ |-> << >>]]

(* "if NULL is returned then the caller should free the pvbuf" (pvbuf.h) *)
FreeAfterPull(h) ==
  \A n \in 1 .. BufSize, compress \in BOOLEAN :
    LET r == pullup(Exhausted(mem), root[h], n, compress, one_ref)
    IN ~ r.ok /\ ~ Failed(r.s) => ~ Failed(pvbuf_free(r.s, root[h]))

(* "on output it equals the number of bytes actually pulled up" (pvbuf.h) *)
PullBeyondEnd(h) ==
  \A n \in 1 .. BufSize, end \in {"hdr", "trl"}, compress \in BOOLEAN :
    ~ Failed(pull(h, n, end, compress).s)

(* "There were fewer bytes in the pvbuf than the number requested to       *)
(* clone.  Fix up the lengths of any iovecs" (pvbuf.c)                     *)
CloneBeyondEnd(h) ==
  \A n \in 1 .. BufSize : ~ Failed(clone(mem, root[h], 0, n).s)

(* "Empty pvbuf, just free it" (pvbuf.c) *)
AddEmpty(h) ==
  \A g \in Handles \ {h}, end \in {"hdr", "trl"} :
    Plain(g) => ~ Failed(add(mem, root[h], Pv(root[g], 0), end, TRUE).s)

(* What the comments of the code say of four calls.  Each should hold for  *)
(* every packet; they are joined by "or" so that one packet refutes all of *)
(* them.                                                                   *)
CallsAsDocumented ==
  MayCall =>
    \A h \in Handles : Plain(h) =>
      \/ FreeAfterPull(h)
      \/ PullBeyondEnd(h)
      \/ CloneBeyondEnd(h)
      \/ AddEmpty(h)
=============================================================================
