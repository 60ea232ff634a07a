--------------------------- MODULE FlowMap_proofs ---------------------------
(***************************************************************************)
(* Proofs about the flow map service: whatever the table and the packets.  *)
(*                                                                         *)
(* The four variables of the service tell nothing while fragments of the   *)
(* packet are missing.  The invariant says what they are as long as none   *)
(* is: those of a flow at its next fragment, or reset behind the last one. *)
(***************************************************************************)
EXTENDS FlowMap, FiniteSetTheorems, TLAPS

\* No fragment of the packet is missing so far.
Unbroken == packet # None /\ next > 0 /\ arrived = 0 .. next - 1

InPacket == packet # None => arrived \subseteq 0 .. next - 1

AtNext ==
    Unbroken /\ FlowOf(packet) # -1 /\ next < packet.frags =>
        /\ count = next /\ sum_pkt_len = packet.upto[next]
        /\ ip_len = packet.ip_len /\ flow_id = LUT_table(packet.tuple)
AtEnd == Unbroken /\ next = packet.frags => flow_id = -1
NoFlow == Unbroken /\ LUT_table(packet.tuple) = -1 => flow_id = -1
NoHead == whole /\ (packet = None \/ 0 \notin arrived) => flow_id = -1

Inv == TypeOK /\ InPacket /\ AtNext /\ AtEnd /\ NoFlow /\ NoHead /\ TagsRight /\ NoStrayFlow

-----------------------------------------------------------------------------
(* The table and the packets                                                 *)

\* A set of natural numbers has a least one: its intervals from 0 are well-founded.
LEMMA Least ==
    ASSUME NEW S \in SUBSET Nat, S # {}
    PROVE  \E i \in S : \A j \in S : i <= j
<1> DEFINE T == {0 .. i : i \in S}
<1>1. T \subseteq FiniteSubsetsOf(Nat)
    <2> SUFFICES ASSUME NEW i \in S PROVE 0 .. i \in FiniteSubsetsOf(Nat)
        OBVIOUS
    <2>1. i \in Int /\ 0 \in Int /\ 0 .. i \in SUBSET Nat
        OBVIOUS
    <2>2. IsFiniteSet(0 .. i)
        BY <2>1, FS_Interval
    <2> QED BY <2>1, <2>2 DEF FiniteSubsetsOf
<1>2. PICK x \in T : \A y \in T : ~(<<y, x>> \in StrictSubsetOrdering(Nat))
    <2>1. T # {}
        OBVIOUS
    <2> HIDE DEF T
    <2>2. IsWellFoundedOn(StrictSubsetOrdering(Nat), FiniteSubsetsOf(Nat))
        BY FS_StrictSubsetOrderingWellFounded
    <2> QED BY <1>1, <2>1, <2>2, WFMin
<1>3. PICK i \in S : x = 0 .. i
    OBVIOUS
<1>4. ASSUME NEW j \in S, j < i PROVE FALSE
    <2>1. i \in Nat /\ j \in Nat
        OBVIOUS
    <2>2. 0 .. j \subseteq 0 .. i /\ i \in 0 .. i /\ i \notin 0 .. j
        BY <1>4, <2>1
    <2>3. 0 .. j \in SUBSET Nat /\ 0 .. i \in SUBSET Nat /\ 0 .. j # 0 .. i
        BY <2>1, <2>2
    <2>4. <<0 .. j, x>> \in StrictSubsetOrdering(Nat)
        BY <1>3, <2>2, <2>3 DEF StrictSubsetOrdering
    <2> QED BY <1>2, <2>4
<1> QED BY <1>4

LEMMA LUTType ==
    ASSUME NEW t PROVE LUT_table(t) \in -1 .. TableLen - 1
<1>1. CASE Hits(t) = {}
    BY <1>1, MapAssumption DEF LUT_table, MapAssumption
<1>2. CASE Hits(t) # {}
    <2>1. Hits(t) \subseteq Nat /\ Hits(t) \subseteq 0 .. TableLen - 1
        BY MapAssumption DEF Hits, MapAssumption
    <2>2. \E i \in Hits(t) : \A j \in Hits(t) : i <= j
        BY <1>2, <2>1, Least
    <2>3. LUT_table(t) \in Hits(t)
        BY <1>2, <2>2 DEF LUT_table
    <2> QED BY <2>1, <2>3
<1> QED BY <1>1, <1>2

LEMMA EntryType ==
    ASSUME NEW f \in 0 .. TableLen - 1
    PROVE  /\ map_table_list[f].frag_flag = 0 /\ map_table_list[f].frag_id = 0
           /\ map_table_list[f].inject_addr \in Nat /\ map_table_list[f].submit_addr \in Nat
<1>1. map_table_list[f] \in Entry
    BY MapAssumption DEF MapAssumption
<1> QED BY <1>1 DEF Entry

LEMMA PacketFacts ==
    ASSUME NEW p \in Packet
    PROVE  /\ p # None /\ p.ip_len \in Nat /\ p.frags \in Nat /\ p.frags > 0
           /\ p.upto[0] = 0
           /\ \A k \in 0 .. p.frags : p.upto[k] \in Nat /\ p.upto[k] < U16
           /\ \A k \in 0 .. p.frags - 1 : p.upto[k] <= p.upto[k + 1]
           /\ \A k \in 1 .. p.frags : p.ip_len <= p.upto[k] <=> k = p.frags
<1>1. p # None /\ PacketType(p)
    BY MapAssumption DEF MapAssumption
<1>2. /\ p.ip_len \in Nat /\ p.frags \in 1 .. 16
      /\ p.upto \in [0 .. p.frags -> Nat] /\ p.upto[0] = 0
      /\ \A k \in 0 .. p.frags : p.upto[k] < U16
      /\ \A j, k \in 0 .. p.frags : j <= k => p.upto[j] <= p.upto[k]
      /\ \A k \in 1 .. p.frags : p.ip_len <= p.upto[k] <=> k = p.frags
    BY <1>1 DEF PacketType
<1>3. p.frags \in Nat /\ p.frags > 0
    BY <1>2
<1>4. \A k \in 0 .. p.frags - 1 : k \in 0 .. p.frags /\ k + 1 \in 0 .. p.frags /\ k <= k + 1
    BY <1>3
<1>5. \A k \in 0 .. p.frags : p.upto[k] \in Nat
    BY <1>2
<1>6. \A k \in 0 .. p.frags - 1 : p.upto[k] <= p.upto[k + 1]
    BY <1>2, <1>4
<1> QED BY <1>1, <1>2, <1>3, <1>5, <1>6

LEMMA ModU16 ==
    ASSUME NEW a \in Nat, NEW b \in Nat, a <= b, b < U16
    PROVE  b - a \in 0 .. U16 - 1 /\ (a + (b - a)) % U16 = b
<1>1. U16 \in Nat /\ b % U16 = b
    BY DEF U16
<1>2. a + (b - a) = b
    OBVIOUS
<1>3. b - a \in 0 .. U16 - 1
    BY <1>1
<1> QED BY <1>1, <1>2, <1>3

LEMMA U16Type == U16 \in Nat /\ U16 > 0 /\ \A a \in Nat : a % U16 \in 0 .. U16 - 1
<1>1. U16 \in Nat /\ U16 > 0 /\ \A a \in Nat : a % U16 \in Nat /\ a % U16 < U16
    BY DEF U16
<1> QED BY <1>1

\* The bytes up to the next fragment and its own make those up to the one behind it.
LEMMA BytesSum ==
    ASSUME NEW p \in Packet, NEW k \in Nat, k < p.frags
    PROVE  /\ p.upto[k + 1] - p.upto[k] \in 0 .. U16 - 1
           /\ (p.upto[k] + (p.upto[k + 1] - p.upto[k])) % U16 = p.upto[k + 1]
           /\ p.upto[k + 1] \in 0 .. U16 - 1
           /\ p.ip_len <= p.upto[k + 1] <=> k + 1 = p.frags
<1> DEFINE a == p.upto[k]
           b == p.upto[k + 1]
<1>1. k \in 0 .. p.frags - 1 /\ k \in 0 .. p.frags
      /\ k + 1 \in 0 .. p.frags /\ k + 1 \in 1 .. p.frags
    BY PacketFacts
<1>2. a \in Nat /\ b \in Nat /\ b < U16 /\ a <= b
    BY <1>1, PacketFacts
<1>3. p.ip_len <= b <=> k + 1 = p.frags
    BY <1>1, PacketFacts
<1> HIDE DEF a, b
<1>4. b \in 0 .. U16 - 1
    BY <1>2, U16Type
<1>5. b - a \in 0 .. U16 - 1 /\ (a + (b - a)) % U16 = b
    BY <1>2, ModU16
<1> QED BY <1>3, <1>4, <1>5 DEF a, b

-----------------------------------------------------------------------------
LEMMA InitInv == Init => Inv
<1> SUFFICES ASSUME Init PROVE Inv
    OBVIOUS
<1>1. 0 \in -1 .. TableLen - 1 /\ 0 \in 0 .. U16 - 1
    BY MapAssumption, U16Type DEF MapAssumption
<1>2. TypeOK
    BY <1>1 DEF Init, TypeOK
<1> QED BY <1>2 DEF Init, Inv, InPacket, AtNext, AtEnd, NoFlow, NoHead, Unbroken, TagsRight, NoStrayFlow, Nothing

\* What Handle makes of the variables, when they have the values n, sum, len and f.
LEMMA HandleVariables ==
    ASSUME NEW n \in Nat, NEW sum \in 0 .. U16 - 1, NEW len \in Nat,
           NEW f \in -1 .. TableLen - 1, Handle(n, sum, len, f)
    PROVE  /\ count' \in Nat /\ sum_pkt_len' \in 0 .. U16 - 1 /\ ip_len' \in Nat
           /\ flow_id' \in {f, -1}
<1>1. CASE AfterFragment(n, sum, len, f)
    BY <1>1, U16Type DEF AfterFragment
<1>2. CASE count' = 0 /\ sum_pkt_len' = 0 /\ flow_id' = f /\ ip_len' = len
    BY <1>2, U16Type
<1>3. \/ AfterFragment(n, sum, len, f)
      \/ count' = 0 /\ sum_pkt_len' = 0 /\ flow_id' = f /\ ip_len' = len
    BY Zenon DEF Handle
<1> QED BY <1>1, <1>2, <1>3

\* What Handle makes of a fragment of a flow, at its number, with its bytes.
LEMMA HandleFlow ==
    ASSUME packet \in Packet, next \in Nat, next < packet.frags, FlowOf(packet) # -1,
           Handle(next, packet.upto[next + 1], packet.ip_len, LUT_table(packet.tuple))
    PROVE  LET f == FlowOf(packet) IN
           /\ mapped'.queue # "freed" /\ mapped'.frag = next
           /\ mapped'.tag = Tag(f, next, next + 1 = packet.frags)
           /\ next + 1 = packet.frags => flow_id' = -1
           /\ next + 1 < packet.frags =>
                /\ count' = next + 1 /\ sum_pkt_len' = packet.upto[next + 1]
                /\ ip_len' = packet.ip_len /\ flow_id' = LUT_table(packet.tuple)
<1> DEFINE lut == LUT_table(packet.tuple)
           last == packet.ip_len <= packet.upto[next + 1]
<1>1. last <=> next + 1 = packet.frags
    BY BytesSum
<1>2. packet.frags \in Nat
    BY PacketFacts
<1>3. PICK g \in {lut, 1} : g = FlowOf(packet) /\ MapHandler(g, next, last)
                            /\ AfterFragment(next, packet.upto[next + 1], packet.ip_len, lut)
    <2>1. CASE lut # -1
        BY <2>1 DEF Handle, FlowOf
    <2>2. CASE lut = -1
        <3>1. FlowOf(packet) = 1 /\ 0 \in packet.ones
            BY <2>2 DEF FlowOf
        <3>2. next \in packet.ones \/ next # 0
            BY <3>1
        <3> QED BY <2>2, <3>1, <3>2 DEF Handle
    <2> QED BY <2>1, <2>2
<1>4. mapped'.queue # "freed" /\ mapped'.frag = next /\ mapped'.tag = Tag(g, next, last)
    BY <1>3 DEF MapHandler
<1>5. Tag(g, next, last) = Tag(FlowOf(packet), next, next + 1 = packet.frags)
    BY <1>1, <1>3 DEF Tag
<1> QED BY <1>1, <1>2, <1>3, <1>4, <1>5 DEF AfterFragment

\* A fragment that Handle sends in no flow is freed or goes out in flow 1.
LEMMA HandleStray ==
    ASSUME NEW n, NEW sum, NEW len, Handle(n, sum, len, -1)
    PROVE  mapped'.queue = "freed" \/ mapped'.tag.flow = 1
BY DEF Handle, MapHandler, Tag

LEMMA FlowOfType ==
    ASSUME packet \in Packet PROVE FlowOf(packet) \in -1 .. TableLen - 1
<1>1. 1 \in -1 .. TableLen - 1 /\ -1 \in -1 .. TableLen - 1
    BY MapAssumption DEF MapAssumption
<1> QED BY <1>1, LUTType DEF FlowOf

\* The tag that TagsRight asks for is the one that flow_mapping writes.
LEMMA RightTag ==
    ASSUME NEW p, FlowOf(p) \in 0 .. TableLen - 1, NEW n \in Nat
    PROVE  Tag(FlowOf(p), n, n + 1 = p.frags) = TagOf(p, n)
<1>1. map_table_list[FlowOf(p)].frag_flag = 0 /\ map_table_list[FlowOf(p)].frag_id = 0
    BY EntryType
<1> QED BY <1>1 DEF Tag, TagOf

-----------------------------------------------------------------------------
\* Behind a fragment: what the two actions have in common.
LEMMA FragmentInv ==
    ASSUME Inv, Fragment, NEW n \in Nat, NEW sum \in 0 .. U16 - 1, NEW len \in Nat,
           NEW f \in -1 .. TableLen - 1, Handle(n, sum, len, f),
           \* the head begins with what LUT_table says
           next = 0 => f = LUT_table(packet.tuple) /\ n = 0 /\ len = packet.ip_len
                       /\ sum = packet.upto[1],
           next > 0 => f = flow_id /\ n = count /\ len = ip_len
                       /\ sum = (sum_pkt_len + Bytes) % U16
    PROVE  Inv'
<1>1. packet \in Packet /\ packet # None /\ next \in Nat /\ next < packet.frags /\ packet' = packet
      /\ next' = next + 1 /\ arrived' = arrived \cup {next} /\ whole' = whole
    BY DEF Fragment, Inv, TypeOK
<1>2. packet.frags \in Nat
    BY <1>1, PacketFacts
<1>3. arrived \subseteq 0 .. next - 1
    BY <1>1 DEF Inv, InPacket
<1>4. flow_id' \in {f, -1} /\ flow_id' \in -1 .. TableLen - 1
      /\ count' \in Nat /\ sum_pkt_len' \in 0 .. U16 - 1 /\ ip_len' \in Nat
    <2>1. -1 \in -1 .. TableLen - 1
        BY MapAssumption DEF MapAssumption
    <2> QED BY <2>1, HandleVariables
<1>5. TypeOK'
    BY <1>1, <1>2, <1>4 DEF Inv, TypeOK
<1>6. InPacket'
    BY <1>1, <1>3 DEF InPacket
<1>7. ASSUME Unbroken'
      PROVE  /\ arrived = 0 .. next - 1
             /\ next > 0 => Unbroken
    <2>1. arrived = 0 .. next - 1
        <3>1. arrived' = 0 .. next
            BY <1>1, <1>7 DEF Unbroken
        <3>2. arrived = arrived' \ {next}
            BY <1>1, <1>3
        <3> QED BY <1>1, <3>1, <3>2
    <2> QED BY <1>1, <2>1 DEF Unbroken
<1>8. ASSUME Unbroken', FlowOf(packet) # -1
      PROVE  Handle(next, packet.upto[next + 1], packet.ip_len, LUT_table(packet.tuple))
    <2>1. CASE next = 0
        <3>1. n = next /\ sum = packet.upto[next + 1]
            BY <2>1
        <3> QED BY <2>1, <3>1
    <2>2. CASE next > 0
        <3>1. /\ count = next /\ sum_pkt_len = packet.upto[next]
              /\ ip_len = packet.ip_len /\ flow_id = LUT_table(packet.tuple)
            BY <1>1, <1>7, <1>8, <2>2 DEF Inv, AtNext
        <3>2. sum = packet.upto[next + 1]
            BY <1>1, <2>2, <3>1, BytesSum DEF Bytes
        <3> QED BY <2>2, <3>1, <3>2
    <2> QED BY <1>1, <2>1, <2>2
<1>9. AtNext' /\ (Unbroken' /\ FlowOf(packet) # -1 /\ next' = packet.frags => flow_id' = -1)
    <2>1. FlowOf(packet)' = FlowOf(packet) /\ LUT_table(packet.tuple)' = LUT_table(packet.tuple)
        BY <1>1 DEF FlowOf, LUT_table, Hits
    <2> QED BY <1>1, <1>8, <2>1, HandleFlow DEF AtNext, Unbroken
<1>10. NoFlow'
    <2>1. ASSUME Unbroken', LUT_table(packet.tuple) = -1
          PROVE  flow_id' = -1
        <3>1. CASE next = 0
            BY <1>4, <2>1, <3>1
        <3>2. CASE next > 0
            BY <1>4, <1>7, <2>1, <3>2 DEF Inv, NoFlow
        <3> QED BY <1>1, <3>1, <3>2
    <2> QED BY <1>1, <2>1 DEF NoFlow, LUT_table, Hits
<1>11. AtEnd'
    <2>1. FlowOf(packet) = -1 => LUT_table(packet.tuple) = -1
        BY DEF FlowOf
    <2> QED BY <1>1, <1>9, <1>10, <2>1 DEF AtEnd, NoFlow
<1>12. NoHead'
    <2>1. ASSUME whole, 0 \notin arrived'
          PROVE  flow_id' = -1
        <3>1. next > 0 /\ 0 \notin arrived
            BY <1>1, <2>1
        <3> QED BY <1>4, <2>1, <3>1 DEF Inv, NoHead
    <2> QED BY <1>1, <2>1 DEF NoHead
<1>13. TagsRight'
    <2>1. ASSUME FlowOf(packet) # -1, arrived' = 0 .. next' - 1
          PROVE  /\ mapped'.queue # "freed" /\ mapped'.frag = next
                 /\ mapped'.tag = Tag(FlowOf(packet), next, next + 1 = packet.frags)
        <3>1. Unbroken'
            BY <1>1, <2>1 DEF Unbroken
        <3> QED BY <1>1, <1>8, <2>1, <3>1, HandleFlow
    <2>2. FlowOf(packet) # -1 => FlowOf(packet) \in 0 .. TableLen - 1
        BY <1>1, FlowOfType
    <2>3. FlowOf(packet') = FlowOf(packet) /\ TagOf(packet', next) = TagOf(packet, next)
        BY <1>1
    <2>4. next' - 1 = next
        BY <1>1
    <2>5. ASSUME FlowOf(packet) # -1, arrived' = 0 .. next' - 1
          PROVE  mapped'.tag = TagOf(packet, next)
        BY <1>1, <2>1, <2>2, <2>5, RightTag
    <2> QED BY <2>1, <2>3, <2>4, <2>5 DEF TagsRight
<1>14. NoStrayFlow'
    <2>1. ASSUME whole, 0 \notin arrived'
          PROVE  mapped'.queue = "freed" \/ mapped'.tag.flow = 1
        <3>1. next > 0 /\ 0 \notin arrived
            BY <1>1, <2>1
        <3>2. f = -1
            BY <2>1, <3>1 DEF Inv, NoHead
        <3> QED BY <3>2, HandleStray
    <2> QED BY <1>1, <2>1 DEF NoStrayFlow
<1> QED BY <1>5, <1>6, <1>9, <1>10, <1>11, <1>12, <1>13, <1>14 DEF Inv

LEMMA NextInv == Inv /\ [Next]_vars => Inv'
<1> SUFFICES ASSUME Inv, [Next]_vars PROVE Inv'
    OBVIOUS
<1> USE DEF Inv
<1>1. ASSUME NEW p \in Packet, Send(p) PROVE Inv'
    <2>1. packet' # None /\ arrived' = {} /\ next' = 0
        BY <1>1, PacketFacts DEF Send
    <2>2. p.frags \in Nat
        BY PacketFacts
    <2>3. TypeOK'
        BY <1>1, <2>1, <2>2 DEF Send, TypeOK, service
    <2> QED BY <1>1, <2>1, <2>3 DEF Send, service, InPacket, AtNext, AtEnd, NoFlow, NoHead,
                Unbroken, TagsRight, NoStrayFlow
<1>2. CASE Lose
    <2>1. packet \in Packet /\ next \in Nat /\ next < packet.frags /\ packet.frags \in Nat
          /\ next' = next + 1 /\ packet' = packet /\ arrived' = arrived
          /\ arrived \subseteq 0 .. next - 1 /\ mapped' = Nothing /\ packet # None
        BY <1>2, PacketFacts DEF Lose, TypeOK, InPacket
    <2>2. arrived # 0 .. next
        BY <2>1
    <2>3. ~Unbroken'
        BY <2>1, <2>2 DEF Unbroken
    <2>4. TypeOK'
        BY <1>2, <2>1 DEF Lose, TypeOK, service
    <2>5. InPacket'
        BY <2>1 DEF InPacket
    <2>6. NoHead'
        BY <1>2, <2>1 DEF Lose, NoHead, service
    <2> QED BY <2>1, <2>3, <2>4, <2>5, <2>6 DEF AtNext, AtEnd, NoFlow, TagsRight, NoStrayFlow
<1>3. CASE Sent
    <2>1. packet \in Packet /\ packet # None /\ next = packet.frags /\ packet.frags \in Nat
          /\ packet.frags > 0 /\ packet' = None
        BY <1>3, PacketFacts DEF Sent, TypeOK
    <2>2. whole' => flow_id' = -1
        BY <1>3, <2>1 DEF Sent, AtEnd, Unbroken, service
    <2>3. TypeOK'
        BY <1>3, <2>1 DEF Sent, TypeOK, service
    <2> QED BY <2>1, <2>2, <2>3 DEF InPacket, AtNext, AtEnd, NoFlow, NoHead, Unbroken, TagsRight, NoStrayFlow
<1>4. CASE HeadFragment
    <2>1. packet \in Packet /\ next = 0 /\ next \in Nat /\ next < packet.frags /\ Fragment
          /\ Handle(0, Bytes, packet.ip_len, LUT_table(packet.tuple))
        BY <1>4 DEF HeadFragment, Fragment, TypeOK
    <2>2. Bytes \in 0 .. U16 - 1 /\ packet.ip_len \in Nat
        BY <2>1, BytesSum, PacketFacts DEF Bytes
    <2>3. Bytes = packet.upto[1]
        <3>1. packet.upto[0] = 0 /\ packet.upto[1] \in Nat
            BY <2>1, PacketFacts
        <3> QED BY <2>1, <3>1 DEF Bytes
    <2> QED BY <2>1, <2>2, <2>3, LUTType, FragmentInv
<1>5. CASE BodyFragment
    <2>1. packet \in Packet /\ next > 0 /\ next \in Nat /\ next < packet.frags /\ Fragment
          /\ Handle(count, (sum_pkt_len + Bytes) % U16, ip_len, flow_id)
        BY <1>5 DEF BodyFragment, Fragment, TypeOK
    <2>2. Bytes \in 0 .. U16 - 1
        BY <2>1, BytesSum DEF Bytes
    <2>3. (sum_pkt_len + Bytes) % U16 \in 0 .. U16 - 1
        BY <2>2, U16Type DEF TypeOK
    <2>4. count \in Nat /\ ip_len \in Nat /\ flow_id \in -1 .. TableLen - 1
        BY DEF TypeOK
    <2> QED BY <2>1, <2>3, <2>4, FragmentInv
<1>6. CASE UNCHANGED vars
    <2>1. /\ packet' = packet /\ next' = next /\ arrived' = arrived /\ whole' = whole
          /\ count' = count /\ sum_pkt_len' = sum_pkt_len /\ flow_id' = flow_id
          /\ ip_len' = ip_len /\ mapped' = mapped
        BY <1>6 DEF vars
    <2>2. TypeOK' /\ InPacket' /\ NoHead' /\ NoStrayFlow'
        BY <2>1 DEF TypeOK, InPacket, NoHead, NoStrayFlow
    <2>3. FlowOf(packet') = FlowOf(packet) /\ LUT_table(packet'.tuple) = LUT_table(packet.tuple)
          /\ TagOf(packet', next' - 1) = TagOf(packet, next - 1)
        BY <2>1
    <2>4. AtNext' /\ AtEnd' /\ NoFlow'
        BY <2>1, <2>3 DEF AtNext, AtEnd, NoFlow, Unbroken
    <2>5. TagsRight'
        BY <2>1, <2>3 DEF TagsRight
    <2> QED BY <2>2, <2>4, <2>5
<1> QED BY <1>1, <1>2, <1>3, <1>4, <1>5, <1>6 DEF Next

THEOREM InvHolds == Spec => []Inv
BY InitInv, NextInv, PTL DEF Spec

\* Type correctness: the sum of the lengths stays within 16 bits, flow_id within the
\* table, for every table and all packets.
THEOREM TypeCorrect == Spec => []TypeOK
BY InvHolds, PTL DEF Inv

\* Every fragment of a packet of which none is missing so far goes out with the tag of
\* its flow, its number and its buffers, however the packets before it came through.
THEOREM FragmentsTagged == Spec => []TagsRight
BY InvHolds, PTL DEF Inv

\* Bodies that follow a whole packet without a head of their own join no flow of the
\* table but the default one.
THEOREM StrayBodies == Spec => []NoStrayFlow
BY InvHolds, PTL DEF Inv
=============================================================================
