------------------------------- MODULE Packets -------------------------------
(***************************************************************************)
(* What the packet functions promise to a caller: packets are strings of   *)
(* bytes.  A variable h of the caller holds nothing (pkt[h] = {}) or a     *)
(* list of packets; a packet by itself is a list of one.  Any call may     *)
(* fail for lack of memory, and then changes nothing.  The bytes that a    *)
(* caller puts into a new buffer differ from all others, so that every     *)
(* byte shows where it came from.                                          *)
(***************************************************************************)
EXTENDS Integers, SequencesExt

CONSTANTS
  Handles,
  BufSize       \* length of the longest buffer

VARIABLE pkt

(* There may be one packet to start with. *)
Init ==
  /\ \A g, h \in Handles : g = h \/ pkt[g] = {} \/ pkt[h] = {}
  /\ \A h \in Handles : \A v \in pkt[h] : Len(v) = 1 /\ IsInjective(v[1])

(* One packet with the bytes x. *)
One(x) == {<<x>>}

Others(H) == \A g \in Handles \ H : pkt'[g] = pkt[g]

Fresh(x) ==
  /\ IsInjective(x)
  /\ \A h \in Handles : \A v \in pkt[h] : \A k \in DOMAIN v :
       Range(x) \cap Range(v[k]) = {}

(* The variable h gets a new packet, or gives its packets up. *)
New(h) ==
  /\ pkt[h] = {}
  /\ \E w \in pkt'[h] : Len(w) = 1 /\ Fresh(w[1])
  /\ Others({h})

Free(h) == pkt'[h] = {} /\ Others({h})

(* New bytes are put in front of a packet or behind it. *)
Put(h) ==
  \E v \in pkt[h], w \in pkt'[h] :
    LET n == Len(w[1]) - Len(v[1])
    IN /\ Len(v) = 1 /\ Len(w) = 1 /\ n \in 1 .. BufSize
       /\ \/ IsSuffix(v[1], w[1]) /\ Fresh(SubSeq(w[1], 1, n))
          \/ IsPrefix(v[1], w[1]) /\ Fresh(SubSeq(w[1], Len(v[1]) + 1, Len(w[1])))
       /\ Others({h})

(* The packet in g is put in front of the one in h or behind it. *)
Join(h, g) ==
  \E v \in pkt[h], w \in pkt[g] :
    /\ h # g /\ Len(v) = 1 /\ Len(w) = 1
    /\ pkt'[h] = One(w[1] \o v[1]) \/ pkt'[h] = One(v[1] \o w[1])
    /\ pkt'[g] = {}
    /\ Others({h, g})

(* Bytes are dropped from the front or from the back of a packet. *)
Pop(h) ==
  \E v \in pkt[h], w \in pkt'[h] :
    /\ Len(v) = 1 /\ Len(w) = 1
    /\ IsSuffix(w[1], v[1]) \/ IsPrefix(w[1], v[1])
    /\ Others({h})

(* g gets a copy of a part of the packet in h. *)
Clone(h, g) ==
  \E v \in pkt[h] :
    /\ pkt[g] = {} /\ Len(v) = 1
    /\ \E first \in 1 .. Len(v[1]) + 1, last \in 0 .. Len(v[1]) :
         pkt'[g] = One(SubSeq(v[1], first, last))
    /\ Others({g})

(* The packet x cut into segments of n bytes; the last may be shorter. *)
Cut(x, n) ==
  [k \in 1 .. (Len(x) + n - 1) \div n |->
     SubSeq(x, (k - 1) * n + 1, Min({k * n, Len(x)}))]

(* g gets the packet in h cut into segments.  With a callback a byte is    *)
(* put in front of each, but for the last one this may fail.               *)
Segment(h, g) ==
  \E v \in pkt[h], w \in pkt'[g] :
    /\ pkt[g] = {} /\ Len(v) = 1
    /\ \E n \in 1 .. Len(v[1]) + 1 :
         LET x == Cut(v[1], n)
         IN /\ Len(w) = Len(x)
            /\ \/ w = x
               \/ \A k \in 1 .. Len(x) :
                    \/ w[k] # << >> /\ Tail(w[k]) = x[k] /\ Fresh(<<Head(w[k])>>)
                    \/ k = Len(x) /\ w[k] = x[k]
    /\ Others({g})

(* New bytes are written over bytes of the packet in h, and appear in all  *)
(* packets that share these.                                               *)
Write(h) ==
  \E v \in pkt[h], w \in pkt'[h] :
    LET changed == {i \in DOMAIN v[1] : v[1][i] # w[1][i]}
        new(x) == LET at == {i \in changed : v[1][i] = x}
                  IN IF at = {} THEN x ELSE w[1][Max(at)]
    IN /\ Len(v) = 1 /\ Len(w) = 1 /\ Len(v[1]) = Len(w[1])
       /\ \A i \in changed : Fresh(<<w[1][i]>>)
       /\ \A i, j \in changed : v[1][i] # v[1][j] => w[1][i] # w[1][j]
       /\ \A g \in Handles :
            pkt'[g] = {[k \in DOMAIN x |-> [i \in DOMAIN x[k] |-> new(x[k][i])]] :
                         x \in pkt[g]}

Next ==
  \E h \in Handles :
    \/ New(h) \/ Free(h) \/ Put(h) \/ Pop(h) \/ Write(h)
    \/ \E g \in Handles : Join(h, g) \/ Clone(h, g) \/ Segment(h, g)

Spec == Init /\ [][Next]_pkt
=============================================================================
