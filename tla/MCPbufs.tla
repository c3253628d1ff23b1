------------------------------- MODULE MCPbufs ------------------------------
(* The instance of pbufs and their allocator that TLC checks: a and b see  *)
(* the objects at different addresses.                                     *)
EXTENDS Pbufs, TLC

CONSTANTS a, b, s1, s2, s3

Apart == [p \in Procs |-> IF p = a THEN 100 ELSE 200]

Iovecs == Permutations(Slots)
=============================================================================
