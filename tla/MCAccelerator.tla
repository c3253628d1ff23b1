--------------------------- MODULE MCAccelerator ---------------------------
(* The instances of Accelerator that TLC checks. *)
EXTENDS Accelerator

(* Handlers of every stage before the last may fail. *)
AllButLast == 0 .. NumStages - 2
=============================================================================
