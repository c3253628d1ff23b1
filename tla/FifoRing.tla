------------------------------ MODULE FifoRing ------------------------------
(***************************************************************************)
(* The ring inside struct xdp2_fifo: the fields producer, consumer,        *)
(* queue_full and queue[], and what one critical section of enqueue and    *)
(* of dequeue does to them.  A ring is the record                          *)
(*   [producer, consumer, queue_full, queue]                               *)
(* An entry of ent_size double words is one message.                       *)
(***************************************************************************)
EXTENDS Integers, Sequences

CONSTANTS
  NumEnts,       \* num_ents, entries of the ring
  LowWaterMark,  \* low_water_mark, "Must be > 0"
  Msgs,          \* the messages that can be enqueued
  NoMsg          \* content of a slot that was never written

ASSUME RingAssumption ==
  /\ NumEnts \in Nat \ {0}
  /\ LowWaterMark \in Nat \ {0}
  /\ NoMsg \notin Msgs

Slots == 0 .. NumEnts - 1

Rings == [producer : Slots, consumer : Slots, queue_full : BOOLEAN,
          queue : [Slots -> Msgs \cup {NoMsg}]]

InitRing == [producer |-> 0, consumer |-> 0, queue_full |-> FALSE,
             queue |-> [i \in Slots |-> NoMsg]]

(* The distance from the consumer to the producer index; a full ring and   *)
(* an empty one both have distance 0.                                      *)
Distance(producer, consumer) == (producer - consumer + NumEnts) % NumEnts

num_in_queue(r) ==
  IF r.producer = r.consumer /\ r.queue_full
    THEN NumEnts
    ELSE Distance(r.producer, r.consumer)

avail_in_queue(r) == NumEnts - num_in_queue(r)

is_empty(r) == r.consumer = r.producer /\ ~ r.queue_full

is_full(r) == r.consumer = r.producer /\ r.queue_full

(* Mutant: the last free entry does not make the ring full. *)
MPush_NoFull(r, m) ==
  [r EXCEPT !.queue[r.producer] = m,
            !.producer = (r.producer + 1) % NumEnts]

(* "Do the work of queuing" of ___xdp2_fifo_sw_enqueue. *)
Push(r, m) ==
  LET p == (r.producer + 1) % NumEnts
  IN [r EXCEPT !.queue[r.producer] = m,
               !.producer = p,
               !.queue_full = @ \/ r.consumer = p]

(* The dequeue of a message by ___xdp2_fifo_sw_dequeue: queue_full is      *)
(* cleared only when the occupancy drops below the low water mark.         *)
Pop(r) ==
  LET c == (r.consumer + 1) % NumEnts
  IN [r EXCEPT !.consumer = c,
               !.queue_full = @ /\ Distance(r.producer, c) >= LowWaterMark]

(* The messages in the ring, oldest first. *)
Contents(r) ==
  [i \in 1 .. num_in_queue(r) |-> r.queue[(r.consumer + i - 1) % NumEnts]]
=============================================================================
