------------------------------ MODULE MCDTable ------------------------------
(* An instance of the dynamic tables with keys of two bits. *)
EXTENDS DTable, TLC

CONSTANTS a1, a2, a3

Bits == [1 .. 2 -> {0, 1}]

(* Keys 00 and 01 have the same hash. *)
Hashes == [k \in Bits |-> IF k[1] = 0 THEN 1 ELSE k[2]]

(* A ternary entry for all keys, for half of them and for one of them, each *)
(* at two positions; and prefixes of every length, two of which differ      *)
(* behind the prefix only.                                                  *)
MatchesOf ==
  [plain |-> [key : Bits],
   tern  |-> [key : {<<0, 0>>}, mask : {<<0, 0>>, <<1, 0>>, <<1, 1>>},
              pos : {1, 2}],
   lpm   |-> [key : {<<0, 0>>}, prefix_len : 0 .. 2]
             \cup [key : {<<0, 1>>}, prefix_len : 1 .. 2]]

Symmetry == Permutations(Addresses)

(* The list of tables and the lists of one table share no state: one of    *)
(* them is followed while the other is empty.                              *)
OneAtATime == entries = <<>> \/ tables = <<>>
=============================================================================
