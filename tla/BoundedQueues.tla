---------------------------- MODULE BoundedQueues ----------------------------
(***************************************************************************)
(* What a set of FIFOs promises its callers: each one is a queue of at     *)
(* most Capacity messages, a message is handed out once, in the order in   *)
(* which it was accepted, and nothing else changes a queue.                *)
(***************************************************************************)
EXTENDS Naturals, Sequences

CONSTANTS Fifos, Capacity, Msgs, NoMsg

VARIABLES
  q,    \* q[f]: the messages queued on f, oldest first
  out   \* out[f]: the message last handed out by f

Init ==
  /\ q = [f \in Fifos |-> << >>]
  /\ out = [f \in Fifos |-> NoMsg]

Enqueue(f, m) ==
  /\ Len(q[f]) < Capacity
  /\ q' = [q EXCEPT ![f] = Append(@, m)]
  /\ UNCHANGED out

Dequeue(f) ==
  /\ q[f] # << >>
  /\ out' = [out EXCEPT ![f] = Head(q[f])]
  /\ q' = [q EXCEPT ![f] = Tail(@)]

Next == \E f \in Fifos : Dequeue(f) \/ \E m \in Msgs : Enqueue(f, m)

Spec == Init /\ [][Next]_<<q, out>>
=============================================================================
