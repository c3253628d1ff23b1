------------------------------- MODULE MCFifo -------------------------------
(***************************************************************************)
(* Instances of Fifo for TLC.  Every poller owns one group; the positions  *)
(* below say where the FIFOs are bound.  The real group has 128 numbers;   *)
(* MaxFifos here is just large enough that find_roll has to wrap.          *)
(***************************************************************************)
EXTENDS Fifo, TLC

CONSTANTS f1, f2, p1, p2, c1, c2, r1, w1

At(g, v) == [group |-> g, num |-> v]

NoPos == [f \in Fifos |-> Null]

(* f1 and f2 are read by r1. *)
ReadByR1 == [f \in Fifos |-> At(r1, IF f = f1 THEN 0 ELSE 2)]

(* f1 is written by w1. *)
WrittenByW1 == [f \in Fifos |-> At(w1, 0)]
=============================================================================
