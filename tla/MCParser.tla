------------------------------ MODULE MCParser ------------------------------
(***************************************************************************)
(* Small parse graphs that meet every branch of the engines.               *)
(***************************************************************************)
EXTENDS Parser

Plain ==
    [kind |-> "plain", proto |-> "plain", min_len |-> 1, lens |-> {},
     encap |-> FALSE, overlay |-> FALSE, types |-> {}, keyin |-> {},
     has_table |-> FALSE, table |-> <<>>, wildcard |-> NULL,
     unknown_ret |-> XDP2_STOP_UNKNOWN_PROTO, zero_len_ok |-> FALSE,
     post |-> FALSE, sub |-> <<>>]

Entry(value, node) == [value |-> value, node |-> node]

\* A node with a table, whose next_proto gives types
Table(node, types, table) ==
    [node EXCEPT !.types = types, !.has_table = TRUE, !.table = table]

NoTlvs ==
    [start |-> 1, min_len |-> 1, els |-> {}, pad1 |-> -1, eol |-> -1,
     max_tlvs |-> 0, table |-> <<>>, wildcard |-> NULL,
     unknown_ret |-> XDP2_OKAY]

PlainTlv ==
    [min_len |-> 0, rets |-> {XDP2_OKAY}, nested |-> NULL, nested_off |-> 0,
     has_overlay |-> FALSE, overlay |-> <<>>, overlay_types |-> {},
     overlay_wildcard |-> NULL, unknown_ret |-> XDP2_OKAY]

Config ==
    [root_node |-> "eth", max_nodes |-> 3, max_encaps |-> 2, max_frames |-> 1,
     num_counters |-> 0, num_keys |-> 0,
     okay_node |-> NULL, fail_node |-> NULL, atencap_node |-> NULL,
     tlv |-> <<>>, node |-> <<>>]

\* Encapsulation: ip holds ip or udp, udp may be empty
Tunnels ==
    [Config EXCEPT !.node =
        [eth |-> Table(Plain, {0, 1, 2}, <<Entry(0, "ip"), Entry(1, "udp")>>),
         ip |-> [Table(Plain, {0, 1, 2, XDP2_STOP_FAIL},
                       <<Entry(0, "ip"), Entry(1, "udp"), Entry(0, "eth")>>)
                    EXCEPT !.encap = TRUE, !.zero_len_ok = TRUE,
                           !.lens = {XDP2_STOP_FAIL, 0, 1, 2}],
         udp |-> [Plain EXCEPT !.encap = TRUE]]]

\* TLV lists: tcp has options with an overlay and a wildcard node, and a list
\* nested in the option "list"
Options ==
    [Config EXCEPT
        !.root_node = "tcp",
        !.node =
            [tcp |-> [Plain EXCEPT !.kind = "tlvs", !.proto = "tlvs",
                        !.lens = 1 .. 5,
                        !.sub = [NoTlvs EXCEPT
                            !.els = [type : 0 .. 4, len : 0 .. 3],
                            !.pad1 = 0, !.eol = 1, !.max_tlvs = 2,
                            !.table = <<Entry(2, "sack"), Entry(3, "list")>>,
                            !.wildcard = "other"]],
             inner |-> [Plain EXCEPT !.kind = "tlvs", !.proto = "tlvs",
                        !.sub = [NoTlvs EXCEPT
                            !.start = 0,
                            !.els = [type : {2, 4}, len : 1 .. 2],
                            !.table = <<Entry(2, "long")>>]]],
        !.tlv =
            [sack |-> [PlainTlv EXCEPT !.has_overlay = TRUE,
                        !.overlay = <<Entry(2, "sack2")>>],
             sack2 |-> [PlainTlv EXCEPT !.min_len = 2,
                        !.rets = {XDP2_OKAY, XDP2_STOP_FAIL}],
             list |-> [PlainTlv EXCEPT !.nested = "inner", !.nested_off = 1,
                        !.has_overlay = TRUE, !.overlay_types = {0, 1},
                        !.overlay = <<Entry(0, "other")>>,
                        !.unknown_ret = XDP2_STOP_FAIL],
             long |-> [PlainTlv EXCEPT !.min_len = 2,
                        !.rets = {XDP2_OKAY, XDP2_STOP_FAIL}],
             other |-> PlainTlv]]

\* Flag-fields, and a node with an automatic next node
Fields ==
    [Config EXCEPT
        !.root_node = "gre",
        !.node =
            [gre |-> [Plain EXCEPT !.kind = "flags", !.proto = "flags",
                        !.lens = 1 .. 4, !.wildcard = "gre",
                        !.sub = [start |-> 1, sizes |-> <<1, 2, 1>>,
                                 table |-> <<Entry(1, "csum"), Entry(3, "seq")>>]]]]

\* The segments of a routing header, of two bytes each
Segments ==
    [start |-> 1, el_length |-> 2, nums |-> 0 .. 2,
     types |-> {0, 1, XDP2_STOP_FAIL}, table |-> <<Entry(0, "seg")>>,
     wildcard |-> NULL, unknown_ret |-> XDP2_OKAY]

\* An array, keys, a post handler and the special nodes; ver is an overlay on
\* itself, and mixed a node of two kinds
Special ==
    [Config EXCEPT
        !.num_keys = 1,
        !.okay_node = "okay", !.fail_node = "fail", !.atencap_node = "atencap",
        !.node =
            [eth |-> [Plain EXCEPT !.keyin = {0, 1, 2, XDP2_STOP_FAIL},
                        !.has_table = TRUE, !.wildcard = "mixed",
                        !.table = <<Entry(0, "srv6"), Entry(1, "ver")>>,
                        !.post = TRUE, !.encap = TRUE],
             ver |-> [Table(Plain, {0, 1}, <<Entry(0, "ver")>>)
                        EXCEPT !.lens = {1}, !.overlay = TRUE],
             srv6 |-> [Plain EXCEPT !.kind = "array", !.proto = "array",
                        !.lens = 1 .. 4, !.post = TRUE, !.sub = Segments],
             mixed |-> [Plain EXCEPT !.kind = "tlvs"]]]

\* A parser that the fast validation accepts although ver goes round and an
\* array is in a table
Loops ==
    [Config EXCEPT
        !.node =
            [eth |-> Table(Plain, {0, 1}, <<Entry(0, "ver"), Entry(1, "srv6")>>),
             ver |-> [Table(Plain, {0, 1, 2}, <<Entry(0, "ver"), Entry(1, "srv6")>>)
                        EXCEPT !.min_len = 0, !.lens = {0, 1}],
             srv6 |-> [Table(Plain, {0, 1}, <<Entry(0, "ver")>>) EXCEPT
                        !.kind = "array", !.proto = "array", !.lens = 1 .. 4,
                        !.sub = [Segments EXCEPT !.unknown_ret = XDP2_STOP_FAIL]]]]

\* A parser that the fast validation accepts because it does not visit wildcard
\* nodes: these have a post handler, keys, and a node of two kinds
Unvalidated ==
    [Config EXCEPT
        !.node =
            [eth |-> [Plain EXCEPT !.wildcard = "ext"],
             ext |-> [Table(Plain, {0, 1}, <<Entry(0, "key"), Entry(1, "mixed")>>)
                        EXCEPT !.post = TRUE],
             key |-> [Plain EXCEPT !.keyin = {0, 1}, !.has_table = TRUE,
                        !.table = <<Entry(0, "ext")>>],
             mixed |-> [Plain EXCEPT !.kind = "tlvs"]]]

\* tcp_node of test/parse_dump/parser.c: options with a minimal length, and a
\* wildcard node for the unknown ones
TcpOptions ==
    [Config EXCEPT
        !.root_node = "tcp",
        !.node =
            [tcp |-> [Plain EXCEPT !.kind = "tlvs", !.proto = "tlvs",
                        !.lens = 1 .. 3,
                        !.sub = [NoTlvs EXCEPT
                            !.els = [type : 2 .. 3, len : 1 .. 2],
                            !.table = <<Entry(2, "mss")>>,
                            !.wildcard = "other"]]],
        !.tlv =
            [mss |-> [PlainTlv EXCEPT !.min_len = 2], other |-> PlainTlv]]

\* ipv6_routing_header_node_check of test/parse_dump/parser.c: a table and a
\* wildcard node
Routing ==
    [Config EXCEPT !.node =
        [eth |-> [Table(Plain, {0, 1}, <<Entry(0, "srv6")>>)
                    EXCEPT !.wildcard = "eh"],
         srv6 |-> Plain, eh |-> Plain]]

AllParsers ==
    {Tunnels, Options, Fields, Special, Loops, Unvalidated, TcpOptions, Routing}

RoutingOnly == {Routing}

\* tcp in a routing header in ip, with room for two nodes and one frame
Routed ==
    [TcpOptions EXCEPT
        !.root_node = "ip", !.max_nodes = 2, !.max_frames = 1,
        !.node = @ @@
            [ip |-> [Table(Plain, {0}, <<Entry(0, "srv6")>>)
                        EXCEPT !.encap = TRUE],
             srv6 |-> [Table(Plain, {0}, <<Entry(0, "tcp")>>) EXCEPT
                        !.kind = "array", !.proto = "array", !.lens = 1 .. 4,
                        !.sub = Segments]]]

RoutedOnly == {Routed}

=============================================================================
