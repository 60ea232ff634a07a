------------------------------ MODULE FlowMap ------------------------------
(***************************************************************************)
(* The flow map service (map_service.c): it turns the packets of the       *)
(* user's device into packets of the time-sensitive network.  A long       *)
(* packet arrives in fragments: the head has the packet's own addresses,   *)
(* the destination address of a body is zero and nothing else tells whose  *)
(* body it is.  The service looks the head's five-tuple up in its table    *)
(* and writes the flow's tag over the destination address of every         *)
(* fragment; four variables of hx_start_map, shared by all packets, carry  *)
(* what it needs from one fragment to the next.                            *)
(*                                                                         *)
(* Fragments come from the one port that TSN.cfg names (get_msg_type), in  *)
(* order, but the receive callback drops what finds no buffer or a full    *)
(* queue: any fragment may be missing.                                     *)
(***************************************************************************)
EXTENDS Integers, Sequences

CONSTANTS
    Tuple,      \* the five-tuples of packets
    NoTuple,    \* the five-tuple of an entry that the file does not give: zeros
    Static,     \* static_table.txt: a sequence of blocks with an ID and an entry
    TableLen,   \* map_table_len
    Packet,     \* the packets that the device sends
    None

(* A packet: its five-tuple, its length field ip_len, the number of its      *)
(* fragments, the bytes of it that the first k fragments hold, and the       *)
(* fragments whose byte 23 is one: in a head that is the protocol, ICMP, in  *)
(* a body any byte of the payload.                                           *)
Entry ==
    [ tuple : Tuple \cup {NoTuple}, flow_type : 0 .. 7, flow_id : Nat,
      frag_flag : {0}, frag_id : {0}, inject_addr : 0 .. 31, submit_addr : 0 .. 31 ]

\* The ID is one digit.  Blocks of one ID overwrite each other; the fields that
\* no file of the repository sets (frag_flag, frag_id) are zero.
Zero ==
    [ tuple |-> NoTuple, flow_type |-> 0, flow_id |-> 0, frag_flag |-> 0,
      frag_id |-> 0, inject_addr |-> 0, submit_addr |-> 0 ]
map_table_list ==
    [ i \in 0 .. TableLen - 1 |->
        LET of == {k \in 1 .. Len(Static) : Static[k].ID = i}
        IN  IF of = {} THEN Zero
            ELSE Static[CHOOSE k \in of : \A j \in of : j <= k].entry ]

\* sum_pkt_len has 16 bits.
U16 == 65536

\* The last fragment is the one with which ip_len is reached.
PacketType(p) ==
    /\ p.tuple \in Tuple /\ p.ip_len \in Nat /\ p.frags \in 1 .. 16
    /\ p.upto \in [0 .. p.frags -> Nat] /\ p.upto[0] = 0
    /\ \A k \in 0 .. p.frags : p.upto[k] < U16
    /\ \A j, k \in 0 .. p.frags : j <= k => p.upto[j] <= p.upto[k]
    /\ \A k \in 1 .. p.frags : p.ip_len <= p.upto[k] <=> k = p.frags
    /\ p.ones \subseteq 0 .. p.frags - 1

\* The tag holds a fragment number of four bits and buffer addresses of five:
\* the planned addresses leave room for the fragments of the flow's packets.
ASSUME MapAssumption ==
    /\ TableLen \in Nat /\ TableLen > 1
    /\ map_table_list \in [0 .. TableLen - 1 -> Entry]
    /\ \A p \in Packet : PacketType(p)
    /\ \A p \in Packet, i \in 0 .. TableLen - 1 :
        map_table_list[i].tuple = p.tuple \/ i = 1 =>
            /\ map_table_list[i].inject_addr + p.frags <= 32
            /\ map_table_list[i].submit_addr + p.frags <= 32
    /\ None \notin Packet /\ NoTuple \notin Tuple

VARIABLES
    packet,     \* the packet whose fragments arrive, or None
    next,       \* the number of its next fragment
    arrived,    \* the fragments of it that arrived (history)
    whole,      \* every fragment of the packet before it arrived (history)
    count, sum_pkt_len, flow_id, ip_len,    \* of hx_start_map
    mapped      \* the last fragment handled: where it went and its tag (history)

vars == <<packet, next, arrived, whole, count, sum_pkt_len, flow_id, ip_len, mapped>>
service == <<count, sum_pkt_len, flow_id, ip_len>>

Nothing == [queue |-> "none"]

Init ==
    /\ packet = None /\ next = 0 /\ arrived = {} /\ whole = FALSE
    /\ count = 0 /\ sum_pkt_len = 0 /\ flow_id = 0 /\ ip_len = 0
    /\ mapped = Nothing

\* The device sends a packet.
Send(p) ==
    /\ packet = None
    /\ packet' = p /\ next' = 0 /\ arrived' = {}
    /\ mapped' = Nothing
    /\ UNCHANGED <<whole, service>>

\* The next fragment is dropped before the service sees it.
Lose ==
    /\ packet # None /\ next < packet.frags
    /\ next' = next + 1
    /\ mapped' = Nothing
    /\ UNCHANGED <<packet, arrived, whole, service>>

Sent ==
    /\ packet # None /\ next = packet.frags
    /\ whole' = (arrived = 0 .. packet.frags - 1)
    /\ packet' = None
    /\ mapped' = Nothing
    /\ UNCHANGED <<next, arrived, service>>

-----------------------------------------------------------------------------
(* The service                                                               *)

\* LUT_table: the first entry with the five-tuple, or -1.
Hits(t) == {i \in 0 .. TableLen - 1 : map_table_list[i].tuple = t}
LUT_table(t) ==
    IF Hits(t) = {} THEN -1 ELSE CHOOSE i \in Hits(t) : \A j \in Hits(t) : i <= j

\* flow_mapping: the tag of the n-th fragment of flow f; last, of the final one.
\* (Mutant: the addresses of a body are those of its head.)
TagSameAddress(f, n, last) ==
    LET e == map_table_list[f] IN
    [ flow |-> f, frag_flag |-> IF last THEN 1 ELSE e.frag_flag, frag_id |-> n,
      inject_addr |-> e.inject_addr, submit_addr |-> e.submit_addr ]
Tag(f, n, last) ==
    LET e == map_table_list[f] IN
    [ flow |-> f, frag_flag |-> IF last THEN 1 ELSE e.frag_flag,
      frag_id |-> IF n = 0 THEN e.frag_id ELSE n,
      inject_addr |-> e.inject_addr + n, submit_addr |-> e.submit_addr + n ]

\* map_handler: reserved-bandwidth flows wait in RC_queue, others are sent.
MapHandler(f, n, last) ==
    mapped' = [ queue |-> IF map_table_list[f].flow_type = 3 THEN "RC_queue" ELSE "txq",
                tag |-> Tag(f, n, last), frag |-> next ]

\* Behind the handler: after the last fragment the next one begins a packet.
\* (Mutant: the flow of a packet that is done is kept.)
AfterFragmentKept(n, sum, len, f) ==
    IF len <= sum
    THEN count' = 0 /\ sum_pkt_len' = 0 /\ flow_id' = f /\ ip_len' = 0
    ELSE count' = n + 1 /\ sum_pkt_len' = sum /\ flow_id' = f /\ ip_len' = len
AfterFragment(n, sum, len, f) ==
    IF len <= sum
    THEN count' = 0 /\ sum_pkt_len' = 0 /\ flow_id' = -1 /\ ip_len' = 0
    ELSE count' = n + 1 /\ sum_pkt_len' = sum /\ flow_id' = f /\ ip_len' = len

\* A fragment, when the variables have the values n, sum, len and f: of a flow of
\* the table; of none, but an ICMP packet or the body of one; of none, and freed.
Handle(n, sum, len, f) ==
    \/ /\ f # -1
       /\ MapHandler(f, n, len <= sum)
       /\ AfterFragment(n, sum, len, f)
    \/ /\ f = -1 /\ (next \in packet.ones \/ n # 0)
       /\ MapHandler(1, n, len <= sum)
       /\ AfterFragment(n, sum, len, f)
    \/ /\ f = -1 /\ next \notin packet.ones /\ n = 0
       /\ mapped' = [queue |-> "freed", frag |-> next]
       /\ count' = 0 /\ sum_pkt_len' = 0 /\ flow_id' = f /\ ip_len' = len

Fragment ==
    /\ packet # None /\ next < packet.frags
    /\ next' = next + 1
    /\ arrived' = arrived \cup {next}
    /\ UNCHANGED <<packet, whole>>

\* The bytes that a fragment adds: eth_pkt_len - 22 for a head, - 24 for a body.
Bytes == packet.upto[next + 1] - packet.upto[next]

\* (Mutant: more header is taken off a head than it has.)
HeadFragmentShort ==
    /\ next = 0
    /\ Fragment
    /\ Handle(0, Bytes - 6, packet.ip_len, LUT_table(packet.tuple))
HeadFragment ==
    /\ next = 0
    /\ Fragment
    /\ Handle(0, Bytes, packet.ip_len, LUT_table(packet.tuple))

BodyFragment ==
    /\ next > 0
    /\ Fragment
    /\ Handle(count, (sum_pkt_len + Bytes) % U16, ip_len, flow_id)

Next ==
    \/ \E p \in Packet : Send(p)
    \/ Lose \/ Sent \/ HeadFragment \/ BodyFragment

Spec == Init /\ [][Next]_vars

-----------------------------------------------------------------------------
\* The types; the sum stays within its 16 bits and flow_id within the table.
TypeOK ==
    /\ packet \in Packet \cup {None}
    /\ next \in Nat /\ (packet # None => next <= packet.frags)
    /\ arrived \subseteq Nat
    /\ whole \in BOOLEAN
    /\ count \in Nat /\ sum_pkt_len \in 0 .. U16 - 1 /\ ip_len \in Nat
    /\ flow_id \in -1 .. TableLen - 1

\* The flow that a packet belongs to, or -1: it is to be freed.
FlowOf(p) ==
    IF LUT_table(p.tuple) # -1 THEN LUT_table(p.tuple)
    ELSE IF 0 \in p.ones THEN 1 ELSE -1

\* The tag that the n-th fragment of the packet is to get.
TagOf(p, n) ==
    LET e == map_table_list[FlowOf(p)] IN
    [ flow |-> FlowOf(p), frag_flag |-> IF n + 1 = p.frags THEN 1 ELSE 0, frag_id |-> n,
      inject_addr |-> e.inject_addr + n, submit_addr |-> e.submit_addr + n ]

\* Whatever was lost of the packets before it, and however their state was left:
\* as long as no fragment of a packet is missing, each of its fragments gets the
\* tag of its flow, its own number, the next buffer addresses, and the final flag
\* exactly when it is the last.
TagsRight ==
    packet # None /\ mapped # Nothing /\ FlowOf(packet) # -1 /\ arrived = 0 .. next - 1 =>
        /\ mapped.queue # "freed" /\ mapped.frag = next - 1
        /\ mapped.tag = TagOf(packet, next - 1)

\* Bodies whose head was lost never go out in a flow of the table, and mix into
\* no packet of it, when the packet before them came through whole; the default
\* flow 1 of ICMP may get them.  (At the start no packet came before: flow_id is 0
\* then, and a body goes out in entry 0.)
NoStrayFlow ==
    packet # None /\ mapped # Nothing /\ whole /\ 0 \notin arrived =>
        mapped.queue = "freed" \/ mapped.tag.flow = 1
=============================================================================
