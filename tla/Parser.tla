------------------------------- MODULE Parser -------------------------------
(***************************************************************************)
(* The parse engine (lib/xdp2/parser.c): __xdp2_parse walks the parse      *)
(* graph of a parser over one packet, and __xdp2_parse_fast does so with   *)
(* fewer checks for parsers that xdp2_parse_validate_fast accepts.  Here   *)
(* the first engine parses a packet and then, if it may, the second one    *)
(* parses the same packet.                                                 *)
(*                                                                         *)
(* A packet is its length and what the functions of the protocol           *)
(* definitions read from it: lengths, types, elements, flags.  Such a      *)
(* value is chosen when an engine first reads it at a place of the packet, *)
(* and the same whenever it is read there again.  A node of the graph      *)
(* carries the sets that its functions return values from ({} for a        *)
(* function that is not set), so the sets of a parser say what packets it  *)
(* may meet.                                                               *)
(*                                                                         *)
(*   node   [kind, proto: node types of parse node and protocol            *)
(*           definition; min_len; lens: ops.len; encap; overlay; types:    *)
(*           ops.next_proto; keyin: ops.next_proto_keyin; has_table, table: *)
(*           proto_table and its entries; wildcard; unknown_ret;           *)
(*           zero_len_ok; post: has a post_handler; sub: its TLVs, fields  *)
(*           or array]                                                     *)
(*   TLVs   [start, min_len; els: what may lie at a position of the list,  *)
(*           as type (the first byte) and length; pad1; eol; max_tlvs;     *)
(*           table; wildcard; unknown_ret]                                 *)
(*   TLV    [min_len; rets: results of the handler; nested; nested_off;    *)
(*           has_overlay, overlay: overlay_table and its entries;          *)
(*           overlay_types; overlay_wildcard; unknown_ret]                 *)
(*   fields [start; sizes: size of each flag-field; table]                 *)
(*   array  [start; el_length; nums: ops.num_els; types: ops.el_type;      *)
(*           table; wildcard; unknown_ret]                                 *)
(***************************************************************************)
EXTENDS Integers, Sequences, FiniteSets, SequencesExt, FiniteSetsExt

CONSTANTS
    Parsers,            \* the parsers, see above
    MaxLen,             \* longest packet
    Word,               \* 2^64: size_t counts modulo Word
    NUM_FAST_NODES,     \* most nodes that validate_parse_fast_node visits
    MaxCalls            \* bound: later callbacks of an engine are not kept

\* A node with a table has one function that gives the next protocol
ASSUME ParsersAssumption ==
    /\ \A p \in Parsers : \A n \in DOMAIN p.node :
        LET node == p.node[n]
        IN  /\ node.types = {} \/ node.keyin = {}
            /\ node.has_table => node.types # {} \/ node.keyin # {}
    /\ Word > 2 * MaxLen /\ MaxCalls \in Nat

VARIABLES
    parser,     \* the parser in use
    length,     \* length of the packet
    engine,     \* "full" for __xdp2_parse, "fast" for __xdp2_parse_fast
    pc,         \* where the engine is
    st,         \* its locals and the control data
    lists,      \* the TLV lists being parsed, the innermost last, or an array
    calls,      \* the callbacks each engine made
    outcome,    \* what each engine returned
    packet      \* what was read from the packet, and where

vars == <<parser, length, engine, pc, st, lists, calls, outcome, packet>>

NULL == "null"

XDP2_OKAY == 0

XDP2_STOP_OKAY == -4

XDP2_STOP_FAIL == -12

XDP2_STOP_LENGTH == -13

XDP2_STOP_UNKNOWN_PROTO == -14

XDP2_STOP_ENCAP_DEPTH == -15

XDP2_STOP_TLV_LENGTH == -17

XDP2_STOP_OPTION_LIMIT == -22

XDP2_STOP_MAX_NODES == -23

Pending == 1

Engines == {"full", "fast"}

Nodes == DOMAIN parser.node

Node == parser.node[st.node]

Sub(n) == parser.node[n].sub

Tlv(t) == parser.tlv[t]

-----------------------------------------------------------------------------
\* size_t a < ssize_t b: b is converted, and a negative b is a large number
Under(a, b) == b < 0 \/ a < b

\* a - b in size_t
Minus(a, b) == (a - b) % Word

\* lookup_node, and in the same way lookup_tlv_node, lookup_array_node and
\* lookup_flag_field_node: the first entry with this value
lookup_node(type, table) ==
    LET hits == {i \in DOMAIN table : table[i].value = type}
    IN  IF hits = {} THEN NULL ELSE table[Min(hits)].node

\* validate_parse_fast_node visits the nodes that tables lead to
Visited ==
    LET More(S) == S \cup {e.node : e \in UNION {ToSet(parser.node[n].table) :
                            n \in {m \in S : parser.node[m].has_table}}}
        reach[k \in 0 .. Cardinality(Nodes)] ==
            IF k = 0 THEN {parser.root_node} ELSE More(reach[k - 1])
    IN  reach[Cardinality(Nodes)]

validate_parse_fast_node(n) ==
    LET p == parser.node[n]
    IN  /\ ~p.post
        /\ p.keyin = {}
        /\ p.kind \in {"tlvs", "flags"} => p.proto = p.kind

xdp2_parse_validate_fast ==
    /\ {parser.okay_node, parser.fail_node, parser.atencap_node} = {NULL}
    /\ parser.num_counters = 0 /\ parser.num_keys = 0
    /\ Cardinality(Visited) <= NUM_FAST_NODES
    /\ \A n \in Visited : validate_parse_fast_node(n)

-----------------------------------------------------------------------------
\* Reading from the packet: what a function of node who returns for the bytes
\* at a position.  Each step of an engine reads one value or nothing
Field(kind, who, at) == <<kind, who, at>>

Reads(field, S) ==
    IF field \in DOMAIN packet THEN {packet[field]} ELSE S

Take(field, v) ==
    /\ packet' = packet @@ (field :> v)
    /\ UNCHANGED <<parser, length, engine>>

TakeNothing == UNCHANGED <<parser, length, engine, packet>>

\* A call of the callbacks of node id for the len bytes at position at
Call(what, id, at, len) ==
    [what |-> what, id |-> id, at |-> at, len |-> len, frame |-> st.frame]

Log(log) ==
    LET Kept(all) == SubSeq(all, 1, Min({Len(all), MaxCalls}))
    IN  calls' = [calls EXCEPT ![engine] = Kept(@ \o log)]

\* Mutant: the okay node is run whatever the code
MStop_AlwaysOkay(ret, log) ==
    /\ pc' = "returned"
    /\ outcome' = [outcome EXCEPT ![engine] = ret]
    /\ Log(IF engine = "full" /\ parser.okay_node # NULL
           THEN log \o <<Call("exit", parser.okay_node, 0, 0)>> ELSE log)
    /\ lists' = <<>>

\* Return ret, after the callbacks in log; __xdp2_parse runs the okay or the
\* fail node first
Stop(ret, log) ==
    LET exit == IF ret \in {XDP2_OKAY, XDP2_STOP_OKAY} THEN parser.okay_node
                ELSE parser.fail_node
    IN  /\ pc' = "returned"
        /\ outcome' = [outcome EXCEPT ![engine] = ret]
        /\ Log(IF engine = "full" /\ exit # NULL
               THEN log \o <<Call("exit", exit, 0, 0)>> ELSE log)
        /\ lists' = <<>>

Goto(p) == pc' = p /\ UNCHANGED outcome

Start ==
    [node |-> parser.root_node, hdr |-> 0, len |-> length, hlen |-> 0,
     nodes |-> parser.max_nodes, encaps |-> 0, frame |-> 0, tlv_levels |-> 0]

Init ==
    /\ parser \in Parsers
    /\ length \in 0 .. MaxLen
    /\ engine = "full" /\ pc = "header"
    /\ st = Start
    /\ lists = <<>>
    /\ calls = [e \in Engines |-> <<>>]
    /\ outcome = [e \in Engines |-> Pending]
    /\ packet = <<>>

-----------------------------------------------------------------------------
(***************************************************************************)
(* The main loop, up to the handler: length checks, extract_metadata and   *)
(* handler.  Only __xdp2_parse compares the length that ops.len returns    *)
(* with min_len.                                                           *)
(***************************************************************************)
\* xdp2_parse_tlvs and xdp2_parse_array begin at start_offset
List(n, at, len) ==
    [node |-> n, at |-> at + Sub(n).start, left |-> Minus(len, Sub(n).start),
     cnt |-> 0, num |-> 0, tlv |-> NULL, def |-> NULL, len |-> 0]

\* Mutant: __xdp2_parse_fast has no case for flag-fields
MSubParser_NoFields(n) ==
    CASE engine = "full" /\ n.kind # n.proto -> "plain"
      [] engine = "fast" /\ n.kind \in {"array", "flags"} -> "plain"
      [] engine = "fast" /\ n.kind # n.proto -> "crashed"
      [] OTHER -> n.kind

\* The switch over node_type.  __xdp2_parse_fast skips arrays, and takes the
\* protocol definition of the other kinds for one of that kind
SubParser(n) ==
    CASE engine = "full" /\ n.kind # n.proto -> "plain"
      [] engine = "fast" /\ n.kind = "array" -> "plain"
      [] engine = "fast" /\ n.kind # n.proto -> "crashed"
      [] OTHER -> n.kind

\* Mutant: the length is not compared with min_len
MBadLength_NoMin(n, hlen) == Under(st.len, hlen)

BadLength(n, hlen) ==
    \/ Under(st.len, hlen)
    \/ engine = "full" /\ n.lens # {} /\ hlen < n.min_len

Length == Field("len", st.node, st.hdr)

TooShort ==
    /\ pc = "header"
    /\ Under(st.len, Node.min_len)
    /\ Stop(XDP2_STOP_LENGTH, <<>>)
    /\ TakeNothing
    /\ UNCHANGED st

Header ==
    /\ pc = "header"
    /\ ~Under(st.len, Node.min_len)
    /\ \E hlen \in IF Node.lens = {} THEN {Node.min_len}
                   ELSE Reads(Length, Node.lens) :
        /\ IF Node.lens = {} THEN TakeNothing ELSE Take(Length, hlen)
        /\ IF BadLength(Node, hlen)
           THEN Stop(XDP2_STOP_LENGTH, <<>>) /\ UNCHANGED st
           ELSE /\ st' = [st EXCEPT !.hlen = hlen]
                /\ Log(<<Call("node", st.node, st.hdr, hlen)>>)
                /\ lists' = IF SubParser(Node) \in {"tlvs", "array"}
                            THEN <<List(st.node, st.hdr, hlen)>> ELSE <<>>
                /\ Goto(SubParser(Node))

-----------------------------------------------------------------------------
(***************************************************************************)
(* xdp2_parse_tlvs and xdp2_parse_one_tlv, on the innermost list.  A TLV   *)
(* in progress is tlv, its length len, and def the node whose definition   *)
(* is in proto_tlv_def: it is set when the TLV is first looked up, and not *)
(* when a wildcard or overlay node takes over.                             *)
(***************************************************************************)
Top == Last(lists)

TopTlvs == Sub(Top.node)

\* The TLV, the number of elements or the element at the start of what is left
Element == Field(pc, Top.node, Top.at)

SetTop(l) == lists' = [lists EXCEPT ![Len(lists)] = l]

\* xdp2_parse_tlvs returns XDP2_OKAY, to the main loop or to the TLV around it
EndList ==
    /\ lists' = Front(lists)
    /\ IF Len(lists) = 1 THEN Goto("plain") /\ UNCHANGED st
       ELSE /\ Goto("overlay")
            /\ st' = [st EXCEPT !.tlv_levels = @ - 1]
    /\ UNCHANGED calls

\* A return with an error leaves every level
StopTlvs(ret, log) ==
    /\ Stop(ret, log)
    /\ st' = [st EXCEPT !.tlv_levels = @ - (Len(lists) - 1)]

\* Move over the current TLV
Over(l, len) ==
    [l EXCEPT !.at = @ + len, !.left = Minus(@, len), !.tlv = NULL]

\* What a node that is not known leads to: the code it gives, or skipping
Unknown(ret, l, len) ==
    IF ret # XDP2_OKAY THEN StopTlvs(ret, <<>>)
    ELSE /\ SetTop(Over(l, len))
         /\ Goto("tlvs")
         /\ UNCHANGED <<st, calls>>

TlvsEnd ==
    /\ pc = "tlvs"
    /\ Top.left = 0
    /\ EndList
    /\ TakeNothing

TlvsPad1 ==
    /\ pc = "tlvs"
    /\ Top.left > 0
    /\ \E e \in Reads(Element, TopTlvs.els) :
        /\ e.type = TopTlvs.pad1
        /\ Take(Element, e)
    /\ SetTop([Top EXCEPT !.at = @ + 1, !.left = @ - 1])
    /\ Goto("tlvs")
    /\ UNCHANGED <<st, calls>>

TlvsEol ==
    /\ pc = "tlvs"
    /\ Top.left > 0
    /\ \E e \in Reads(Element, TopTlvs.els) :
        /\ e.type # TopTlvs.pad1 /\ e.type = TopTlvs.eol
        /\ Take(Element, e)
    /\ EndList

\* The checks of a TLV: the number of TLVs, min_len and the length it gives
TlvError(e) ==
    IF TopTlvs.max_tlvs # 0 /\ Top.cnt + 1 > TopTlvs.max_tlvs
    THEN XDP2_STOP_OPTION_LIMIT
    ELSE IF Top.left < TopTlvs.min_len \/ e.len = 0 \/ Under(Top.left, e.len)
    THEN XDP2_STOP_TLV_LENGTH
    ELSE XDP2_OKAY

TlvsNext ==
    /\ pc = "tlvs"
    /\ Top.left > 0
    /\ \E e \in Reads(Element, TopTlvs.els) :
        LET known == lookup_node(e.type, TopTlvs.table)
            tlv == IF known # NULL THEN known ELSE TopTlvs.wildcard
            l == [Top EXCEPT !.cnt = @ + 1]
        IN  /\ e.type \notin {TopTlvs.pad1, TopTlvs.eol}
            /\ Take(Element, e)
            /\ IF TlvError(e) # XDP2_OKAY THEN StopTlvs(TlvError(e), <<>>)
               ELSE IF tlv = NULL THEN Unknown(TopTlvs.unknown_ret, l, e.len)
               ELSE /\ SetTop([l EXCEPT !.tlv = tlv, !.def = tlv,
                                        !.len = e.len])
                    /\ Goto("tlv")
                    /\ UNCHANGED <<st, calls>>

\* Mutant: the node is parsed again also when there is no wildcard node
MShortTlv_Again ==
    /\ pc = "tlv"
    /\ Top.len < Tlv(Top.def).min_len
    /\ SetTop([Top EXCEPT !.tlv = IF TopTlvs.wildcard = NULL THEN @
                                   ELSE TopTlvs.wildcard])
    /\ Goto("tlv")
    /\ TakeNothing
    /\ UNCHANGED <<st, calls>>

\* A TLV shorter than its min_len is treated as one that is not known
ShortTlv ==
    /\ pc = "tlv"
    /\ Top.len < Tlv(Top.def).min_len
    /\ IF TopTlvs.wildcard # NULL
       THEN /\ SetTop([Top EXCEPT !.tlv = TopTlvs.wildcard])
            /\ Goto("tlv")
            /\ UNCHANGED <<st, calls>>
       ELSE Unknown(TopTlvs.unknown_ret, Top, Top.len)
    /\ TakeNothing

OneTlv ==
    /\ pc = "tlv"
    /\ Top.len >= Tlv(Top.def).min_len
    /\ \E ret \in Reads(Field("ret", Top.tlv, Top.at), Tlv(Top.tlv).rets) :
        LET tlv == Tlv(Top.tlv)
            log == <<Call("tlv", Top.tlv, Top.at, Top.len)>>
            off == Tlv(Top.def).nested_off
        IN  /\ Take(Field("ret", Top.tlv, Top.at), ret)
            /\ IF ret # XDP2_OKAY THEN StopTlvs(ret, log)
               ELSE IF tlv.nested # NULL
               THEN /\ lists' = Append(lists, List(tlv.nested, Top.at + off,
                                                   Minus(Top.len, off)))
                    /\ st' = [st EXCEPT !.tlv_levels = @ + 1]
                    /\ Log(log)
                    /\ Goto("tlvs")
               ELSE /\ Log(log)
                    /\ Goto("overlay")
                    /\ UNCHANGED <<st, lists>>

OverlayType == Field("overlay", Top.def, Top.at)

Overlay ==
    /\ pc = "overlay"
    /\ \E type \in IF Tlv(Top.def).overlay_types = {} THEN {Top.len}
                   ELSE Reads(OverlayType, Tlv(Top.def).overlay_types) :
        LET tlv == Tlv(Top.tlv)
            known == lookup_node(type, tlv.overlay)
            next == IF known # NULL THEN known ELSE tlv.overlay_wildcard
        IN  /\ IF tlv.has_overlay /\ Tlv(Top.def).overlay_types # {}
               THEN Take(OverlayType, type) ELSE TakeNothing
            /\ IF ~tlv.has_overlay THEN Unknown(XDP2_OKAY, Top, Top.len)
               ELSE IF next = NULL THEN Unknown(tlv.unknown_ret, Top, Top.len)
               ELSE /\ SetTop([Top EXCEPT !.tlv = next])
                    /\ Goto("tlv")
                    /\ UNCHANGED <<st, calls>>

-----------------------------------------------------------------------------
(***************************************************************************)
(* xdp2_parse_flag_fields.  The flags are the set of the fields that are   *)
(* present.  The protocols with flag-fields compute their length from the  *)
(* flags, with xdp2_flag_fields_length.                                    *)
(***************************************************************************)
xdp2_flag_fields_offset(targ_idx, flags, sizes) ==
    MapThenSumSet(LAMBDA i : sizes[i], flags \cap 1 .. targ_idx - 1)

xdp2_flag_fields_length(flags, sizes) ==
    xdp2_flag_fields_offset(Len(sizes) + 1, flags, sizes)

FlagFields ==
    /\ pc = "flags"
    /\ \E flags \in Reads(Field("flags", st.node, st.hdr),
                {F \in SUBSET DOMAIN Node.sub.sizes :
                    Node.sub.start + xdp2_flag_fields_length(F, Node.sub.sizes)
                        = st.hlen}) :
        LET sizes == Node.sub.sizes
            present == SetToSortSeq({i \in flags :
                            lookup_node(i, Node.sub.table) # NULL}, <)
            hdr == st.hdr + Node.sub.start
        IN  /\ Take(Field("flags", st.node, st.hdr), flags)
            /\ Log([k \in DOMAIN present |->
                    Call("field", lookup_node(present[k], Node.sub.table),
                         hdr + xdp2_flag_fields_offset(present[k], flags, sizes),
                         sizes[present[k]])])
    /\ Goto("plain")
    /\ UNCHANGED <<st, lists>>

-----------------------------------------------------------------------------
(***************************************************************************)
(* xdp2_parse_array.  hlen is tested against zero before each element, and *)
(* not against the length of the element.                                  *)
(***************************************************************************)
ArrayStart ==
    /\ pc = "array"
    /\ \E num \in Reads(Element, TopTlvs.nums) :
        /\ Take(Element, num)
        /\ SetTop([Top EXCEPT !.num = num])
    /\ Goto("arrel")
    /\ UNCHANGED <<st, calls>>

ArrayEnd ==
    /\ pc = "arrel"
    /\ Top.cnt = Top.num \/ Top.left = 0
    /\ IF Top.cnt < Top.num THEN Stop(XDP2_STOP_LENGTH, <<>>)
       ELSE lists' = <<>> /\ Goto("plain") /\ UNCHANGED calls
    /\ TakeNothing
    /\ UNCHANGED st

ArrayElement ==
    /\ pc = "arrel"
    /\ Top.cnt < Top.num /\ Top.left > 0
    /\ \E type \in IF TopTlvs.types = {} THEN {0}
                   ELSE Reads(Element, TopTlvs.types) :
        LET known == lookup_node(type, TopTlvs.table)
            el == IF known # NULL THEN known ELSE TopTlvs.wildcard
        IN  /\ IF TopTlvs.types = {} THEN TakeNothing ELSE Take(Element, type)
            /\ IF type < 0 THEN Stop(type, <<>>)
               ELSE IF el = NULL /\ TopTlvs.unknown_ret # XDP2_OKAY
               THEN Stop(TopTlvs.unknown_ret, <<>>)
               ELSE /\ Log(IF el = NULL THEN <<>>
                           ELSE <<Call("arrel", el, Top.at, TopTlvs.el_length)>>)
                    /\ SetTop([Over(Top, TopTlvs.el_length) EXCEPT !.cnt = @ + 1])
                    /\ Goto("arrel")
    /\ UNCHANGED st

-----------------------------------------------------------------------------
(***************************************************************************)
(* The main loop, from the post handler on: leaf nodes, encapsulation, and *)
(* the next node.  __xdp2_parse_fast has no test for leaf nodes, runs no   *)
(* special nodes, and returns XDP2_STOP_OKAY where there is no next node.  *)
(***************************************************************************)
IsLeaf(n) == ~n.has_table /\ n.wildcard = NULL

PostHandler(n) ==
    IF engine = "full" /\ n.post
    THEN <<Call("post", st.node, st.hdr, st.hlen)>> ELSE <<>>

AtEncap(n) ==
    IF engine = "full" /\ n.encap /\ parser.atencap_node # NULL
    THEN <<Call("atencap", parser.atencap_node, 0, 0)>> ELSE <<>>

\* Mutant: one frame too many
MEncap_OneMore ==
    LET encaps == (st.encaps + 1) % 256
    IN  [st EXCEPT !.encaps = encaps,
                   !.frame = IF encaps <= parser.max_encaps
                                /\ parser.max_frames >= @ THEN @ + 1 ELSE @]

\* ctrl->var.encaps has eight bits
Encap ==
    LET encaps == (st.encaps + 1) % 256
    IN  [st EXCEPT !.encaps = encaps,
                   !.frame = IF encaps <= parser.max_encaps
                                /\ parser.max_frames > @ THEN @ + 1 ELSE @]

Post ==
    /\ pc = "plain"
    /\ IF engine = "full" /\ IsLeaf(Node)
       THEN Stop(XDP2_STOP_OKAY, PostHandler(Node)) /\ UNCHANGED st
       ELSE LET log == PostHandler(Node) \o AtEncap(Node)
            IN  /\ st' = IF Node.encap THEN Encap ELSE st
                /\ IF st'.encaps > parser.max_encaps /\ Node.encap
                   THEN Stop(XDP2_STOP_ENCAP_DEPTH, log)
                   ELSE Log(log) /\ Goto("next") /\ UNCHANGED lists
    /\ TakeNothing

\* The node that follows n when the lookup gave found: __xdp2_parse looks
\* next_proto up once more after it took the wildcard node, and the lookup
\* overwrites that node
NextNode(n, found) ==
    IF found # NULL THEN found
    ELSE IF engine = "full" /\ n.has_table /\ n.types # {} THEN NULL
    ELSE n.wildcard

NoNextRet(n) == IF engine = "full" THEN n.unknown_ret ELSE XDP2_STOP_OKAY

\* Go on with node next, after moving over the header
Proceed(next) ==
    LET moved == IF Node.overlay THEN st
                 ELSE [st EXCEPT !.hdr = @ + st.hlen, !.len = @ - st.hlen]
        full == engine = "full"
    IN  IF full /\ moved.len = 0 /\ Node.zero_len_ok
        THEN Stop(XDP2_STOP_OKAY, <<>>) /\ st' = moved
        ELSE IF full /\ st.nodes = 0
        THEN /\ outcome' = [outcome EXCEPT ![engine] = XDP2_STOP_MAX_NODES]
             /\ pc' = "returned"
             /\ st' = moved
             /\ UNCHANGED <<lists, calls>>
        ELSE /\ st' = [moved EXCEPT !.node = next, !.nodes =
                                        IF full THEN @ - 1 ELSE @]
             /\ Goto(IF next = NULL THEN "crashed" ELSE "header")
             /\ UNCHANGED <<lists, calls>>

\* What the protocol definition gives the types of the next protocol from
NextTypes(n) ==
    IF ~n.has_table THEN {}
    ELSE IF n.keyin # {} THEN n.keyin ELSE n.types

NextType == Field("type", st.node, st.hdr)

\* __xdp2_parse_fast calls next_proto of every node with a table
NoNextProto ==
    /\ pc = "next"
    /\ engine = "fast" /\ Node.has_table /\ Node.types = {}
    /\ Goto("crashed")
    /\ TakeNothing
    /\ UNCHANGED <<st, lists, calls>>

NextProto ==
    /\ pc = "next"
    /\ engine = "fast" /\ Node.has_table => Node.types # {}
    /\ \E type \in IF NextTypes(Node) = {} THEN {0}
                   ELSE Reads(NextType, NextTypes(Node)) :
        LET found == IF NextTypes(Node) = {} THEN NULL
                     ELSE lookup_node(type, Node.table)
        IN  /\ IF NextTypes(Node) = {} THEN TakeNothing ELSE Take(NextType, type)
            /\ IF type < 0 THEN Stop(type, <<>>) /\ UNCHANGED st
               ELSE IF found = NULL /\ Node.wildcard = NULL
               THEN Stop(NoNextRet(Node), <<>>) /\ UNCHANGED st
               ELSE Proceed(NextNode(Node, found))

\* The packet is parsed again with __xdp2_parse_fast, if that is allowed
ParseFast ==
    /\ pc = "returned"
    /\ engine = "full"
    /\ xdp2_parse_validate_fast
    /\ engine' = "fast"
    /\ st' = Start
    /\ pc' = "header"
    /\ UNCHANGED <<parser, length, lists, calls, outcome, packet>>

Next ==
    \/ TooShort \/ Header
    \/ TlvsEnd \/ TlvsPad1 \/ TlvsEol \/ TlvsNext
    \/ ShortTlv \/ OneTlv \/ Overlay
    \/ FlagFields
    \/ ArrayStart \/ ArrayEnd \/ ArrayElement
    \/ Post \/ NoNextProto \/ NextProto
    \/ ParseFast

Spec == Init /\ [][Next]_vars

\* The engine runs in the thread of its caller
FairSpec == Spec /\ WF_vars(Next)

-----------------------------------------------------------------------------
\* Types of the state, and what the parser of the graph is bound to
TypeOK ==
    /\ parser \in Parsers /\ length \in 0 .. MaxLen /\ engine \in Engines
    /\ pc \in {"header", "plain", "tlvs", "tlv", "overlay", "flags", "array",
               "arrel", "next", "returned", "crashed"}
    /\ st.node \in Nodes \cup {NULL}
    /\ st.hdr + st.len = length
    /\ st.hlen \in 0 .. MaxLen
    /\ st.nodes \in 0 .. parser.max_nodes
    /\ st.frame \in 0 .. parser.max_frames
    /\ st.encaps \in 0 .. parser.max_encaps + 1

\* The calls of an engine for nodes of the graph
Layers(e) == SelectSeq(calls[e], LAMBDA c : c.what = "node")

\* The header a call is made for: that of the last node called before it
Around(e, i) ==
    calls[e][Max({j \in 1 .. i : calls[e][j].what = "node"})]

Inner == {"tlv", "field", "arrel"}

\* A number of elements of the array n fills the rest of a header of hlen bytes
Whole(n, hlen) == (hlen - Sub(n).start) % Sub(n).el_length = 0

\* What is left of a TLV list ends where the header, or the TLV it is nested
\* in, ends: a list never reads what lies behind.  The same holds for an array
\* whose elements fill the header.  And tlv_levels is the depth of the nested
\* list, also after an error
ListsNested ==
    /\ \A i \in DOMAIN lists :
        LET end == IF i = 1 THEN st.hdr + st.hlen
                   ELSE lists[i - 1].at + lists[i - 1].len
        IN  \/ lists[i].at + lists[i].left <= end
            \/ pc = "arrel" /\ ~Whole(st.node, st.hlen)
    /\ st.tlv_levels = IF lists = <<>> THEN 0 ELSE Len(lists) - 1

\* extract_metadata and the handlers are given bytes of the packet: a header
\* ends within the packet, and in __xdp2_parse is as long as min_len says;
\* TLVs and flag-fields end within the header they are in, as the lists that
\* are still to be parsed do.  So do the elements of an array, but only if they
\* fill the header: xdp2_parse_array does not compare what is left of the
\* header with the length of an element (ArraysInHeader, which does not hold)
BytesInPacket ==
    /\ TypeOK /\ ListsNested
    /\ \A e \in Engines : \A i \in DOMAIN calls[e] :
        LET c == calls[e][i]
            header == Around(e, i)
        IN  /\ c.what = "node" =>
                /\ c.at + c.len <= length
                /\ e = "full" => c.len >= parser.node[c.id].min_len
            /\ c.what \in Inner =>
                /\ c.at >= header.at
                /\ \/ c.at + c.len <= header.at + header.len
                   \/ c.what = "arrel" /\ ~Whole(header.id, header.len)

\* Metadata goes to the frame of the encapsulation until there are no more
\* frames, and then to the last one; no engine parses what max_encaps
\* encapsulations hold, and __xdp2_parse calls a bounded number of nodes.  The
\* last frame has the number max_frames, counted from 0, and max_nodes nodes are
\* called after the root: both limits are one above the documented ones
\* (NodesLimited and FramesLimited, which do not hold)
LimitsHold ==
    \A e \in Engines :
        LET seq == Layers(e)
            Depth(i) == Cardinality({j \in 1 .. i - 1 :
                                        parser.node[seq[j].id].encap})
        IN  /\ e = "full" => Len(seq) <= parser.max_nodes + 1
            /\ \A i \in DOMAIN seq :
                /\ Depth(i) <= parser.max_encaps
                /\ seq[i].frame = Min({Depth(i), parser.max_frames})

\* The okay or the fail node is run once, last, and according to the code that
\* __xdp2_parse returns.  XDP2_STOP_MAX_NODES is left out: parser.md ("Parse node
\* to visit when parser exits error") asks for the fail node there too, but the
\* code returns without it
ExitNodeRun ==
    LET exits == SelectSeq(calls["full"], LAMBDA c : c.what = "exit")
        ret == outcome["full"]
        exit == IF ret \in {XDP2_OKAY, XDP2_STOP_OKAY} THEN parser.okay_node
                ELSE parser.fail_node
    IN  CASE ret = Pending -> exits = <<>>
          [] ret = XDP2_STOP_MAX_NODES -> TRUE
          [] exit = NULL -> exits = <<>>
          [] OTHER -> /\ Len(exits) = 1 /\ Last(calls["full"]) = exits[1]
                      /\ exits[1].id = exit

\* The calls that both engines make
Common(e) == SelectSeq(calls[e], LAMBDA c : c.what \notin {"arrel", "post"})

\* For a parser that xdp2_parse_validate_fast accepts, __xdp2_parse_fast makes
\* the callbacks of __xdp2_parse, in the same order, and returns the same code,
\* with these differences.  Array elements and post handlers are skipped;
\* XDP2_STOP_OKAY stands for unknown_ret; a leaf may exceed max_encaps; and
\* where __xdp2_parse gives up (the number of nodes, a header shorter than
\* min_len, an element of an array, the end of the packet behind a node with
\* XDP2_PARSE_NODE_F_ZERO_LEN_OK) it goes on.  It calls a function that is not
\* there only for a node that the validation would reject, but never saw: a
\* wildcard node
FastAgrees ==
    /\ engine = "fast" /\ pc = "crashed" => ~validate_parse_fast_node(st.node)
    /\ outcome["fast"] # Pending =>
        LET full == outcome["full"]
            fast == outcome["fast"]
            last == parser.node[Last(Layers("full")).id]
            GaveUp == \/ full \in {XDP2_STOP_MAX_NODES, XDP2_STOP_LENGTH}
                      \/ full = XDP2_STOP_OKAY /\ last.zero_len_ok
                      \/ last.kind = "array" /\
                          full \in {last.sub.unknown_ret} \cup last.sub.types
        IN  \/ Common("full") = Common("fast") /\
                \/ full = fast
                \/ full = last.unknown_ret /\ fast = XDP2_STOP_OKAY
                \/ full = XDP2_STOP_OKAY /\ fast = XDP2_STOP_ENCAP_DEPTH
                    /\ last.encap /\ IsLeaf(last)
            \/ GaveUp /\ IsPrefix(Common("full"), Common("fast"))

\* A TLV shorter than its min_len where there is a wildcard node: the length is
\* compared again with the min_len of the first node
ShortTlvStuck ==
    /\ pc = "tlv"
    /\ Top.len < Tlv(Top.def).min_len
    /\ TopTlvs.wildcard # NULL

\* Node n, which moves over no byte of the packet at the current position, may
\* be followed by one of the nodes in S
StaysIn(n, S) ==
    LET node == parser.node[n]
        lens == IF node.lens = {} THEN {node.min_len}
                ELSE Reads(Field("len", n, st.hdr), node.lens)
        found == {lookup_node(type, node.table) :
                    type \in Reads(Field("type", n, st.hdr), node.types)}
    IN  /\ ~node.encap
        /\ node.overlay \/ 0 \in lens
        /\ \/ found \cap S # {}
           \/ node.wildcard \in S /\ (~node.has_table \/ NULL \in found)

\* Nodes that follow each other without an end and without moving
MaySpin ==
    \E S \in SUBSET Nodes : st.node \in S /\ \A n \in S : StaysIn(n, S)

\* The engines leave their loop and return.  These are the exceptions: a short
\* TLV where there is a wildcard node is looked at for ever (ShortTlvHandled,
\* which does not hold); __xdp2_parse goes on without a node where there are a
\* table and a wildcard node (WildcardTaken, which does not hold);
\* __xdp2_parse_fast, which does not count nodes, goes round for ever in nodes
\* that move over no byte, and calls what is not there for wildcard nodes that
\* were not validated (FastAgrees)
Terminates ==
    <>[](\/ pc = "returned"
         \/ ShortTlvStuck
         \/ engine = "full" /\ st.node = NULL
         \/ engine = "fast" /\ (pc = "crashed" \/ MaySpin))

\* "Try wildcard node.  Either table lookup failed to find a node or there is
\* only a wildcard" (parser.c): the engine never goes on without a node
WildcardTaken == st.node # NULL

\* "max_nodes | Maximum number of nodes that may be visited" (parser.md)
NodesLimited == Len(Layers("full")) <= parser.max_nodes

\* "max_frames | Maximum number of metadata frames" (parser.md)
FramesLimited ==
    Cardinality({c.frame : c \in ToSet(Layers("full"))}) <= parser.max_frames

\* "We ran out of header length before the end of the array" (parser.c): no
\* element is parsed behind the header
ArraysInHeader ==
    \A i \in DOMAIN calls["full"] :
        LET End(c) == c.at + c.len
        IN  calls["full"][i].what = "arrel" =>
                End(calls["full"][i]) <= End(Around("full", i))

\* "Treat check length error as an unrecognized TLV" (parser.c): a TLV shorter
\* than its min_len is parsed by the wildcard node, or ends with the code for
\* unknown TLVs
ShortTlvHandled == pc = "tlv" ~> pc # "tlv"

\* Four things that are said of __xdp2_parse.  Each should hold for all packets;
\* they are joined by "or" so that one packet refutes all of them
ParseAsDocumented ==
    \/ ShortTlvHandled
    \/ []NodesLimited
    \/ []FramesLimited
    \/ []ArraysInHeader

=============================================================================
