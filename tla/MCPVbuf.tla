------------------------------- MODULE MCPVbuf -------------------------------
(* Instances of PVbuf for TLC. *)
EXTENDS PVbuf

MCNumIovecs == [p \in PvIds |-> IF p = 1 THEN 4 ELSE 5]

MCPieces == {<<"pbuf", 1>>, <<"short", 2>>, <<"long", 1>>}

MCStarts ==
  [size : {0, 8}, off : {0, 3}, end : {"hdr", "trl"}, t : {"pbuf", "long"},
   len : {1}, k : {0, 1, 3}]

(* Two small pvbufs, an empty packet, and long addresses to add. *)
SmallIovecs == [p \in PvIds |-> IF p <= 2 THEN 4 ELSE 5]

LongPieces == {<<"long", 2>>}

EmptyStarts ==
  {[size |-> 0, off |-> 0, end |-> "trl", t |-> "long", len |-> 2, k |-> 0]}

Sym == Permutations(Handles)
=============================================================================
