-------------------- MODULE PktCentralizedBuffer_proofs --------------------
(***************************************************************************)
(* Proofs about PktCentralizedBuffer, for any number of ports and buffers: *)
(* its types and the acknowledgement of offers; and then, from a stronger  *)
(* invariant, that every buffer id has one owner, that the counts are      *)
(* right and the monitors quiet, and that it implements BufferPool.        *)
(***************************************************************************)
EXTENDS PktCentralizedBuffer, FiniteSetTheorems, TLAPS

(* The control of address_read: which channel's FIFO read is under way, and*)
(* that the channel waits for its id meanwhile.                            *)
ReaderInv ==
    /\ ard_state = "initial_s" => \A p \in Ports : /\ offer[p] = NoBufid
                                                   /\ ~reg_bufid_ack[p]
    /\ ard_state = "initial_s" => rd_valid = {}
    /\ ard_state = "rd_bufid_ch_s" => rd_valid \subseteq {PrevPort(ard_ch)}
    /\ ard_state = "wait_1s" => rd_valid = {ard_ch} /\ ~Empty
    /\ \A p \in rd_valid : offer[p] = NoBufid /\ ~reg_bufid_ack[p]
    /\ \A p \in Ports : offer[p] # NoBufid => ~reg_bufid_ack[p]
    /\ \A p \in Ports : ack[p] => offer[p] # NoBufid

(* A port waits for the forward table with an id in its descriptor.        *)
PortInv == \A p \in Ports : in_state[p] = "wait_des_ack" <=> in_bufid[p] # NoBufid

Inv == TypeOK /\ ReaderInv /\ PortInv

----------------------------------------------------------------------------
(* The ring of ports.                                                      *)
LEMMA RingLemma ==
    ASSUME NEW p \in Ports
    PROVE  /\ NextPort(p) \in Ports
           /\ PrevPort(p) \in Ports
           /\ PrevPort(NextPort(p)) = p
           /\ PrevPort(p) # p
BY NumPortsAssumption DEF Ports, NextPort, PrevPort

(* There are more buffers than ports: a port number is also an id.         *)
LEMMA PortsAreBufids == Ports \subseteq Bufids
BY NumPortsAssumption, NumBufidsAssumption DEF Ports, Bufids

(* A packet has at most one copy per port.                                 *)
LEMMA CopiesMadeType ==
    ASSUME NEW map \in OutMaps
    PROVE  CopiesMade(map) \in 0 .. NumPorts
<1>1. IsFiniteSet(Ports) /\ Cardinality(Ports) = NumPorts
  BY FS_Interval, NumPortsAssumption DEF Ports
<1>2. Outports(map) \subseteq Ports
  BY WiredAssumption, OutMapsAssumption DEF Outports
<1>3. /\ IsFiniteSet(Outports(map))
      /\ Cardinality(Outports(map)) <= NumPorts
  BY <1>1, <1>2, FS_Subset
<1>4. Cardinality(Outports(map)) \in Nat
  BY <1>3, FS_CardinalityType
<1> QED
  BY <1>3, <1>4, NumPortsAssumption DEF CopiesMade

(* The channel polled after a FIFO read follows the one it was made for.   *)
LEMMA ChannelAfterFetchLemma ==
    ASSUME NEW p \in Ports, rd_valid = {p}
    PROVE  ChannelAfterFetch = NextPort(p)
<1>1. (CHOOSE n \in rd_valid : \A m \in rd_valid : n <= m) = p
  <2>1. \A m \in {p} : p <= m
    BY NumPortsAssumption DEF Ports
  <2> QED
    BY <2>1
<1> QED
  BY <1>1 DEF ChannelAfterFetch

----------------------------------------------------------------------------
(* What the memories' ports keep of the types.                             *)
LEMMA FifoPortsType ==
    ASSUME FifoTypeOK
    PROVE  /\ \A id \in Bufids : StoreBufid(id) => FifoTypeOK'
           /\ FetchBufid => FifoTypeOK'
           /\ SyncPushPointer => FifoTypeOK'
           /\ UNCHANGED fifoVars => FifoTypeOK'
<1> USE DEF FifoTypeOK
<1>1. ASSUME NEW id \in Bufids, StoreBufid(id) PROVE FifoTypeOK'
  BY <1>1 DEF StoreBufid
<1>2. FetchBufid => FifoTypeOK'
  <2> SUFFICES ASSUME FetchBufid, ~Empty PROVE FifoTypeOK'
    BY DEF FetchBufid, fifoVars
  <2>1. fifo # <<>> /\ visible \in Nat /\ visible > 0
    BY DEF Empty
  <2> QED
    BY <2>1 DEF FetchBufid, Empty
<1>3. SyncPushPointer => FifoTypeOK'
  BY DEF SyncPushPointer
<1>4. UNCHANGED fifoVars => FifoTypeOK'
  BY DEF fifoVars
<1> QED
  BY <1>1, <1>2, <1>3, <1>4

(* A write of the FIFO and of the count RAM keeps their types.             *)
LEMMA MemoryPortsType ==
    ASSUME FifoTypeOK, AwrTypeOK, MemoryPorts
    PROVE  FifoTypeOK' /\ outport_num' \in [Bufids -> 0 .. NumPorts]
<1>1. FifoTypeOK'
  BY FifoPortsType DEF MemoryPorts, FifoWritePort, AwrTypeOK
<1>2. outport_num' \in [Bufids -> 0 .. NumPorts]
  BY DEF MemoryPorts, RamWritePort, AwrTypeOK
<1> QED
  BY <1>1, <1>2

----------------------------------------------------------------------------
(* The monitor.                                                            *)
LEMMA MonitorType ==
    ASSUME TypeOK, FifoTypeOK', MonitorStore \/ MonitorFetch
    PROVE  /\ bufid_state' \in SUBSET Bufids
           /\ bufid_overflow_cnt' \in Nat
           /\ bufid_underflow_cnt' \in Nat
<1>1. CASE MonitorStore
  BY <1>1, NoBufidAssumption DEF MonitorStore, TypeOK, AwrTypeOK
<1>2. CASE MonitorFetch
  BY <1>2 DEF MonitorFetch, TypeOK
<1> QED
  BY <1>1, <1>2

(* The cycles of address_read.                                             *)
LEMMA InitialOfferStep ==
    ASSUME Inv, InitialOffer
    PROVE  ArdTypeOK' /\ FifoTypeOK' /\ ReaderInv'
<1> USE DEF Inv, TypeOK, ArdTypeOK, InitialOffer
<1>1. FifoTypeOK'
  BY FifoPortsType
<1>2. ArdTypeOK'
  BY PortsAreBufids
<1>3. ReaderInv'
  <2>1. \A p \in Ports : offer'[p] # NoBufid
    BY PortsAreBufids, NoBufidAssumption
  <2>2. \A p \in Ports : ~reg_bufid_ack'[p]
    BY DEF ReaderInv
  <2> QED
    BY <2>1, <2>2 DEF ReaderInv
<1> QED
  BY <1>1, <1>2, <1>3

(* Polling a channel keeps the reader's invariant: the word read for the   *)
(* channel before is handed to a port that has no id and waits for one.    *)
LEMMA PollChannelStep ==
    ASSUME Inv, NEW n \in Ports, PollChannel(n)
    PROVE  ArdTypeOK' /\ FifoTypeOK' /\ ReaderInv'
<1> USE DEF Inv, TypeOK, ArdTypeOK
<1> PrevPort(n) \in Ports /\ NextPort(n) \in Ports /\ PrevPort(n) # n
    /\ PrevPort(NextPort(n)) = n
  BY RingLemma
<1>1. FifoTypeOK'
  BY FifoPortsType DEF PollChannel
<1>2. \A p \in Ports : OfferAfterPoll(n, p) \in Bufids \cup {NoBufid}
  BY DEF OfferAfterPoll, FifoTypeOK
<1>3. ArdTypeOK'
  BY <1>2 DEF PollChannel, Served
<1>4. rd_valid \subseteq {PrevPort(n)}
  BY DEF PollChannel, ReaderInv
<1>5. /\ ard_state' = "rd_bufid_ch_s" => rd_valid' \subseteq {PrevPort(ard_ch')}
      /\ ard_state' = "wait_1s" => /\ ard_ch' = n /\ rd_valid' = {n} /\ ~Empty'
                                   /\ offer'[n] = NoBufid /\ ~reg_bufid_ack'[n]
      /\ ard_state' # "initial_s"
      /\ ard_state' # "wait_1s" => rd_valid' = {}
  <2>1. CASE Served(n) /\ ~Empty
    BY <2>1, <1>4 DEF PollChannel, Empty, fifoVars, OfferAfterPoll
  <2>2. CASE ~(Served(n) /\ ~Empty)
    BY <2>2, <1>4 DEF PollChannel
  <2> QED
    BY <2>1, <2>2
<1>6. ASSUME NEW p \in Ports
      PROVE  offer'[p] # NoBufid => ~reg_bufid_ack'[p]
  BY DEF PollChannel, OfferAfterPoll, Served, Taking, ReaderInv
<1>7. \A p \in Ports : ack'[p] => offer'[p] # NoBufid
  BY DEF PollChannel
<1>8. \A p \in rd_valid' : offer'[p] = NoBufid /\ ~reg_bufid_ack'[p]
  BY <1>3, <1>5
<1>9. ReaderInv'
  BY <1>5, <1>6, <1>7, <1>8 DEF ReaderInv
<1> QED
  BY <1>1, <1>3, <1>9

(* The FIFO read keeps it: the channel polled next is the one after the    *)
(* channel that waits for the word, so it hands the word to that one.      *)
LEMMA WaitFifoStep ==
    ASSUME Inv, WaitFifo
    PROVE  ArdTypeOK' /\ FifoTypeOK' /\ ReaderInv'
<1> USE DEF Inv, TypeOK, ArdTypeOK
<1>1. FifoTypeOK'
  BY FifoPortsType DEF WaitFifo
<1>2. rd_valid = {ard_ch} /\ ard_ch' = NextPort(ard_ch)
  BY ChannelAfterFetchLemma DEF WaitFifo, ReaderInv
<1>3. ard_ch' \in Ports /\ PrevPort(ard_ch') = ard_ch
  BY <1>2, RingLemma
<1>4. ArdTypeOK'
  BY <1>3 DEF WaitFifo
<1>5. /\ offer[ard_ch] = NoBufid /\ ~reg_bufid_ack[ard_ch] /\ ~ack[ard_ch]
  BY <1>2 DEF ReaderInv
<1>6. /\ \A p \in rd_valid' : offer'[p] = NoBufid /\ ~reg_bufid_ack'[p]
      /\ rd_valid' \subseteq {PrevPort(ard_ch')}
  BY <1>2, <1>3, <1>5 DEF WaitFifo
<1>7. \A p \in Ports : /\ offer'[p] # NoBufid => ~reg_bufid_ack'[p]
                       /\ ack'[p] => offer'[p] # NoBufid
  BY DEF WaitFifo, ReaderInv
<1>8. ReaderInv'
  BY <1>6, <1>7 DEF WaitFifo, ReaderInv
<1> QED
  BY <1>1, <1>4, <1>8

----------------------------------------------------------------------------
(* A write of the memories does not change what the reader sees.           *)
LEMMA MemoryPortsVisible ==
    ASSUME MemoryPorts
    PROVE  visible' = visible
BY DEF MemoryPorts, FifoWritePort, StoreBufid, fifoVars

(* A cycle of address_write keeps the types of its registers.              *)
LEMMA WriteCycleType ==
    ASSUME TypeOK, WriteCycle
    PROVE  AwrTypeOK' /\ FifoTypeOK' /\ visible' = visible
<1> USE DEF TypeOK, AwrTypeOK
<1> /\ NumPorts \in Nat /\ NumPorts >= 2 /\ NumBufids \in Nat /\ NumBufids > NumPorts
    /\ Bufids = 0 .. NumBufids - 1
  BY NumPortsAssumption, NumBufidsAssumption DEF Bufids
<1>1. MemoryPorts
  BY DEF WriteCycle, InitialStore, PollRelease, WaitRam1, WaitRam2, DecrementOrFree
<1>2. /\ FifoTypeOK'
      /\ outport_num' \in [Bufids -> 0 .. NumPorts]
      /\ visible' = visible
  BY <1>1, MemoryPortsType, MemoryPortsVisible
<1>3. CASE InitialStore
  <2>1. bufid_send_cnt' \in NumPorts .. NumBufids - 1
    BY <1>3 DEF InitialStore, LastStored
  <2> QED
    BY <1>2, <1>3, <2>1 DEF InitialStore
<1>4. ASSUME NEW n \in Ports, PollRelease(n) PROVE AwrTypeOK'
  <2>1. bufid_addr' \in Bufids
    BY <1>4 DEF PollRelease
  <2>2. outport_reg' \in Ports
    BY <1>4, RingLemma DEF PollRelease
  <2> QED
    BY <1>2, <1>4, <2>1, <2>2 DEF PollRelease
<1>5. CASE WaitRam1
  BY <1>2, <1>5 DEF WaitRam1
<1>6. CASE WaitRam2
  BY <1>2, <1>6 DEF WaitRam2
<1>7. CASE DecrementOrFree
  <2>1. wr_outport_num' \in 0 .. NumPorts
    BY <1>7 DEF DecrementOrFree, MoreCopies
  <2>2. o_pkt_bufid' \in Bufids \cup {NoBufid}
    BY <1>7 DEF DecrementOrFree
  <2>3. outport_reg' \in Ports
    BY <1>7, RingLemma DEF DecrementOrFree
  <2> QED
    BY <1>2, <1>7, <2>1, <2>2, <2>3 DEF DecrementOrFree
<1> QED
  BY <1>2, <1>3, <1>4, <1>5, <1>6, <1>7 DEF WriteCycle

----------------------------------------------------------------------------
(* The initial states and the steps keep the invariant.                    *)
LEMMA InitInv == Init => Inv
<1> SUFFICES ASSUME Init PROVE Inv
  OBVIOUS
<1> USE DEF Init, FifoInit, ArdInit, AwrInit
<1> /\ NumPorts \in Nat /\ NumPorts >= 2 /\ NumBufids \in Nat /\ NumBufids > NumPorts
  BY NumPortsAssumption, NumBufidsAssumption
<1>1. FifoTypeOK
  BY DEF FifoTypeOK
<1>2. ArdTypeOK
  BY DEF ArdTypeOK, Ports
<1>3. AwrTypeOK
  <2>1. 0 \in Ports /\ 0 \in Bufids /\ 0 \in 0 .. NumPorts
        /\ NumPorts \in NumPorts .. NumBufids - 1
    BY DEF Ports, Bufids
  <2> QED
    BY <2>1 DEF AwrTypeOK, FirstStored
<1>4. TypeOK
  BY <1>1, <1>2, <1>3 DEF TypeOK
<1>5. ReaderInv /\ PortInv
  BY DEF ReaderInv, PortInv
<1> QED
  BY <1>4, <1>5 DEF Inv

(* Every step of the buffer and of the ports keeps the invariant.          *)
LEMMA NextInv == Inv /\ [Next]_vars => Inv'
<1> SUFFICES ASSUME Inv, [Next]_vars PROVE Inv'
  OBVIOUS
<1> USE DEF Inv
<1>1. CASE AddressReadCycle
  <2>1. ArdTypeOK' /\ FifoTypeOK' /\ ReaderInv'
    BY <1>1, InitialOfferStep, PollChannelStep, WaitFifoStep DEF AddressReadCycle, ReadCycle
  <2>2. AwrTypeOK'
    BY <1>1 DEF AddressReadCycle, TypeOK, AwrTypeOK, awrVars
  <2>3. TypeOK' /\ PortInv'
    BY <1>1, <2>1, <2>2, MonitorType DEF AddressReadCycle, TypeOK, PortInv, portVars
  <2> QED
    BY <2>1, <2>3
<1>2. CASE AddressWriteCycle
  <2>1. AwrTypeOK' /\ FifoTypeOK' /\ visible' = visible
    BY <1>2, WriteCycleType DEF AddressWriteCycle
  <2>2. ArdTypeOK'
    BY <1>2 DEF AddressWriteCycle, TypeOK, ArdTypeOK, ardVars
  <2>3. TypeOK' /\ PortInv'
    BY <1>2, <2>1, <2>2, MonitorType DEF AddressWriteCycle, TypeOK, PortInv, portVars
  <2>4. ReaderInv'
    BY <1>2, <2>1 DEF AddressWriteCycle, ReaderInv, ardVars, Empty
  <2> QED
    BY <2>3, <2>4
<1>3. CASE FifoSync
  <2>1. FifoTypeOK' /\ visible' > visible /\ visible \in Nat
    BY <1>3, FifoPortsType DEF FifoSync, SyncPushPointer, TypeOK, FifoTypeOK
  <2>2. TypeOK' /\ PortInv'
    BY <1>3, <2>1 DEF FifoSync, TypeOK, ArdTypeOK, AwrTypeOK, PortInv, ardVars, awrVars,
                      portVars, monitorVars
  <2>3. ReaderInv'
    BY <1>3, <2>1 DEF FifoSync, ReaderInv, ardVars, Empty
  <2> QED
    BY <2>2, <2>3
<1>4. ASSUME NEW p \in Wired, PacketHead(p) \/ DropDescriptor(p) PROVE Inv'
  <2>1. TypeOK' /\ PortInv'
    BY <1>4 DEF PacketHead, DropDescriptor, TypeOK, FifoTypeOK, ArdTypeOK, AwrTypeOK,
                PortInv, fifoVars, ardVars, awrVars, monitorVars
  <2>2. ReaderInv'
    BY <1>4 DEF PacketHead, DropDescriptor, ReaderInv, fifoVars, ardVars, Empty
  <2> QED
    BY <2>1, <2>2
<1>5. ASSUME NEW p \in Wired, TakeBufid(p) PROVE Inv'
  <2>1. p \in Ports /\ offer[p] \in Bufids
    BY <1>5, WiredAssumption DEF TakeBufid, TypeOK, ArdTypeOK
  <2>2. TypeOK'
    BY <1>5, <2>1 DEF TakeBufid, TypeOK, FifoTypeOK, ArdTypeOK, AwrTypeOK,
                fifoVars, awrVars, monitorVars
  <2>3. ReaderInv'
    BY <1>5, <2>1 DEF TakeBufid, TypeOK, ArdTypeOK, ReaderInv, fifoVars, Empty
  <2>4. PortInv'
    BY <1>5, <2>1 DEF TakeBufid, TypeOK, PortInv
  <2> QED
    BY <2>2, <2>3, <2>4
<1>6. ASSUME NEW p \in Wired, NEW map \in OutMaps, ForwardDescriptor(p, map) PROVE Inv'
  <2>1. p \in Ports /\ in_bufid[p] \in Bufids
    BY <1>6, WiredAssumption DEF ForwardDescriptor, TypeOK, PortInv
  <2>2. outport_num' \in [Bufids -> 0 .. NumPorts]
    BY <1>6, <2>1, CopiesMadeType DEF ForwardDescriptor, TypeOK, AwrTypeOK
  <2>3. queued' \in [Ports -> SUBSET Bufids]
    BY <1>6, <2>1 DEF ForwardDescriptor, TypeOK
  <2>4. TypeOK'
    BY <1>6, <2>2, <2>3 DEF ForwardDescriptor, TypeOK, FifoTypeOK, ArdTypeOK, AwrTypeOK,
                            fifoVars, ardVars, monitorVars
  <2>5. PortInv'
    BY <1>6, <2>1 DEF ForwardDescriptor, TypeOK, PortInv
  <2>6. ReaderInv'
    BY <1>6 DEF ForwardDescriptor, ReaderInv, fifoVars, ardVars, Empty
  <2> QED
    BY <2>4, <2>5, <2>6
<1>7. ASSUME NEW p \in Wired, NEW id \in Bufids, FinishPacket(p, id) PROVE Inv'
  <2>1. TypeOK' /\ PortInv'
    BY <1>7 DEF FinishPacket, TypeOK, FifoTypeOK, ArdTypeOK, AwrTypeOK, PortInv,
                fifoVars, ardVars, monitorVars
  <2>2. ReaderInv'
    BY <1>7 DEF FinishPacket, ReaderInv, fifoVars, ardVars, Empty
  <2> QED
    BY <2>1, <2>2
<1>8. CASE UNCHANGED vars
  <2>1. TypeOK' /\ PortInv'
    BY <1>8 DEF vars, TypeOK, FifoTypeOK, ArdTypeOK, AwrTypeOK, PortInv, fifoVars, ardVars,
                awrVars, portVars, monitorVars
  <2>2. ReaderInv'
    BY <1>8 DEF vars, ReaderInv, fifoVars, ardVars, Empty
  <2> QED
    BY <2>1, <2>2
<1> QED
  BY <1>1, <1>2, <1>3, <1>4, <1>5, <1>6, <1>7, <1>8 DEF Next

(* Therefore it holds in every reachable state.                            *)
LEMMA Invariance == Spec => []Inv
BY InitInv, NextInv, PTL DEF Spec

(* Every register keeps its range: no counter or address of the two        *)
(* machines runs out of the ids and ports there are.                       *)
THEOREM TypeCorrect == Spec => []TypeOK
<1>1. Inv => TypeOK
  BY DEF Inv
<1> QED
  BY <1>1, Invariance, PTL

(* A port acknowledges an id only while it is offered and never while it   *)
(* already waits for the next one: no refill is lost or doubled.           *)
THEOREM AcksMatchOffers == Spec => []NoAckWhileWaiting
<1>1. Inv => NoAckWhileWaiting
  BY DEF Inv, TypeOK, ArdTypeOK, ReaderInv, NoAckWhileWaiting
<1> QED
  BY <1>1, Invariance, PTL

(* An offered id stays on its register until the port acknowledged it.     *)
LEMMA OfferHeldStep ==
    Inv /\ [Next]_vars =>
        [\A p \in Ports : offer[p] # NoBufid /\ ~ack[p] => offer'[p] = offer[p]]_vars
<1> SUFFICES ASSUME Inv, Next, NEW p \in Ports, offer[p] # NoBufid, ~ack[p]
             PROVE  offer'[p] = offer[p]
  OBVIOUS
<1>1. CASE AddressReadCycle
  <2>1. ~InitialOffer
    BY DEF InitialOffer, Inv, ReaderInv
  <2>2. ASSUME NEW n \in Ports, PollChannel(n) PROVE offer'[p] = offer[p]
    BY <2>2 DEF PollChannel, OfferAfterPoll, Served, Taking, Inv, ReaderInv
  <2>3. CASE WaitFifo
    BY <2>3 DEF WaitFifo
  <2> QED
    BY <1>1, <2>1, <2>2, <2>3 DEF AddressReadCycle, ReadCycle
<1>2. CASE AddressWriteCycle
  BY <1>2 DEF AddressWriteCycle, ardVars
<1>3. CASE FifoSync
  BY <1>3 DEF FifoSync, ardVars
<1>4. ASSUME NEW q \in Wired, \/ PacketHead(q)
                              \/ TakeBufid(q)
                              \/ DropDescriptor(q)
                              \/ \E map \in OutMaps : ForwardDescriptor(q, map)
                              \/ \E id \in Bufids : FinishPacket(q, id)
      PROVE offer'[p] = offer[p]
  BY <1>4 DEF PacketHead, TakeBufid, DropDescriptor, ForwardDescriptor, FinishPacket, ardVars
<1> QED
  BY <1>1, <1>2, <1>3, <1>4 DEF Next

(* The action property: an offer changes only after its acknowledgement.   *)
THEOREM OffersHeld == Spec => OfferHeld
BY Invariance, OfferHeldStep, PTL DEF Spec, OfferHeld

-----------------------------------------------------------------------------
(* The owner of an id                                                        *)

(* The places of an id, as predicates (Owners names them one by one).      *)
InReset(id)   == \/ ard_state = "initial_s" /\ id < NumPorts
                 \/ awr_state = "initial_s" /\ id >= bufid_send_cnt
InFifo(id)    == \E i \in 1 .. Len(fifo) : fifo[i] = id
InFetched(id) == Fetched /\ iv_pkt_bufid = id
Offered(id)   == \E p \in Ports : offer[p] = id /\ ~ack[p]
Received(id)  == \E p \in Ports : in_bufid[p] = id
Shared(id)    == Copies(id) # {}
Storing(id)   == o_pkt_bufid = id

OnePlace(id) ==
    /\ \/ InReset(id) \/ InFifo(id) \/ InFetched(id) \/ Offered(id)
       \/ Received(id) \/ Shared(id) \/ Storing(id)
    /\ InReset(id)   => ~InFifo(id) /\ ~InFetched(id) /\ ~Offered(id)
                        /\ ~Received(id) /\ ~Shared(id) /\ ~Storing(id)
    /\ InFifo(id)    => ~InFetched(id) /\ ~Offered(id) /\ ~Received(id)
                        /\ ~Shared(id) /\ ~Storing(id)
    /\ InFetched(id) => ~Offered(id) /\ ~Received(id) /\ ~Shared(id) /\ ~Storing(id)
    /\ Offered(id)   => ~Received(id) /\ ~Shared(id) /\ ~Storing(id)
    /\ Received(id)  => ~Shared(id) /\ ~Storing(id)
    /\ Shared(id)    => ~Storing(id)

PlacesInv == \A id \in Bufids : OnePlace(id)

(* Within a place the id is there once.                                    *)
FifoDistinct == \A i, j \in 1 .. Len(fifo) : fifo[i] = fifo[j] => i = j
OffersDistinct ==
    \A p, q \in Ports :
        offer[p] # NoBufid /\ offer[p] = offer[q] /\ ~ack[p] /\ ~ack[q] => p = q
ReceivedDistinct ==
    \A p, q \in Ports : in_bufid[p] # NoBufid /\ in_bufid[p] = in_bufid[q] => p = q

(* A port has a copy for one reason: it has to send it, or has asked for   *)
(* its release, or is being served.                                        *)
CopyOnce ==
    \A p \in Ports, id \in Bufids :
        /\ id \in queued[p] => release[p] # id /\ ~(InService(p) /\ bufid_addr = id)
        /\ release[p] = id => ~(InService(p) /\ bufid_addr = id)

(* The control of address_write: what its registers hold in each state.    *)
WriterInv ==
    /\ awr_state = "wait_for_ram1" => release[outport_reg] = bufid_addr
    /\ awr_state \in {"wait_for_ram1", "wait_for_ram2", "rd_ram"} => o_pkt_bufid = NoBufid
    /\ awr_state \in {"wait_for_ram2", "rd_ram"} =>
           rd_outport_num = Cardinality(Copies(bufid_addr))
    /\ wr_bufid_wr => awr_state = "wr_bufid_ch_s" /\ Copies(bufid_addr) # {}

(* The ack pulse is over before the port hands its descriptor over.        *)
AckInv == \A p \in Ports : ack[p] => in_state[p] = "wait_des_ack"

(* The monitor's record is right.                                          *)
MonitorInv == bufid_state = {id \in Bufids : InFifo(id)} /\ MonitorsQuiet

OwnerInv ==
    /\ Inv
    /\ PlacesInv
    /\ FifoDistinct /\ OffersDistinct /\ ReceivedDistinct
    /\ CopyOnce
    /\ WriterInv
    /\ CountIsCopies
    /\ AckInv
    /\ MonitorInv

----------------------------------------------------------------------------
(* The invariant without the part that is shown above.                     *)
Ownership ==
    /\ PlacesInv
    /\ FifoDistinct /\ OffersDistinct /\ ReceivedDistinct
    /\ CopyOnce
    /\ WriterInv
    /\ CountIsCopies
    /\ AckInv
    /\ MonitorInv

(* A step that leaves every copy where it is.                             *)
SameCopies == \A id \in Bufids : Copies(id)' = Copies(id)

(* The ports with a copy are finitely many.                                *)
LEMMA CopiesFinite ==
    ASSUME NEW id
    PROVE  /\ Copies(id) \subseteq Ports
           /\ IsFiniteSet(Copies(id))
           /\ Cardinality(Copies(id)) \in Nat
           /\ Cardinality(Copies(id)) = 0 <=> Copies(id) = {}
           /\ \A p \in Copies(id) :
                 /\ Cardinality(Copies(id) \ {p}) = Cardinality(Copies(id)) - 1
                 /\ Cardinality(Copies(id) \ {p}) = 0 <=> Copies(id) = {p}
<1>1. Copies(id) \subseteq Ports
  BY DEF Copies
<1>2. IsFiniteSet(Ports)
  BY FS_Interval, NumPortsAssumption DEF Ports
<1>3. IsFiniteSet(Copies(id))
  BY <1>1, <1>2, FS_Subset
<1>4. /\ Cardinality(Copies(id)) \in Nat
      /\ Cardinality(Copies(id)) = 0 <=> Copies(id) = {}
  BY <1>3, FS_CardinalityType, FS_EmptySet
<1>5. ASSUME NEW p \in Copies(id)
      PROVE  /\ Cardinality(Copies(id) \ {p}) = Cardinality(Copies(id)) - 1
             /\ Cardinality(Copies(id) \ {p}) = 0 <=> Copies(id) = {p}
  <2>1. /\ IsFiniteSet(Copies(id) \ {p})
        /\ Cardinality(Copies(id) \ {p}) = Cardinality(Copies(id)) - 1
    BY <1>3, FS_RemoveElement
  <2>2. Cardinality(Copies(id) \ {p}) = 0 <=> Copies(id) \ {p} = {}
    BY <2>1, FS_EmptySet
  <2> QED
    BY <2>1, <2>2
<1> QED
  BY <1>1, <1>3, <1>4, <1>5

(* The FIFO of distinct ids has room for an id that is not in it.          *)
LEMMA FifoRoom ==
    ASSUME fifo \in Seq(Bufids), FifoDistinct, NEW id \in Bufids, ~InFifo(id)
    PROVE  ~Full
<1> SUFFICES ASSUME Full PROVE FALSE
  OBVIOUS
<1> DEFINE S == 1 .. Len(fifo)
           T == Bufids \ {id}
           f == [i \in S |-> fifo[i]]
<1>0. NumBufids \in Nat /\ NumBufids > 0
  BY NumPortsAssumption, NumBufidsAssumption
<1>1. IsFiniteSet(S) /\ Cardinality(S) = NumBufids
  BY <1>0, FS_Interval DEF Full
<1>2. IsFiniteSet(Bufids) /\ Cardinality(Bufids) = NumBufids
  BY <1>0, FS_Interval DEF Bufids
<1>3. IsFiniteSet(T) /\ Cardinality(T) < Cardinality(S)
  <2>1. IsFiniteSet(T) /\ Cardinality(T) = Cardinality(Bufids) - 1
    BY <1>2, FS_RemoveElement
  <2> QED
    BY <1>0, <1>1, <1>2, <2>1
<1>4. \A i \in S : fifo[i] \in Bufids /\ fifo[i] # id
  BY DEF InFifo
<1>5. f \in [S -> T]
  BY <1>4
<1> HIDE DEF f, T
<1>6. \E i, j \in S : i # j /\ f[i] = f[j]
  BY <1>1, <1>3, <1>5, FS_PigeonHole
<1>7. PICK i \in S, j \in S : i # j /\ f[i] = f[j]
  BY <1>6
<1>8. fifo[i] = fifo[j]
  BY <1>7 DEF f
<1> QED
  BY <1>7, <1>8 DEF FifoDistinct

(* A cycle of the memories stores the id that was to be stored, and writes *)
(* the count that was to be written.                                       *)
LEMMA StoreLemma ==
    ASSUME OwnerInv, MemoryPorts
    PROVE  /\ \A id \in Bufids : InFifo(id)' <=> InFifo(id) \/ Storing(id)
           /\ FifoDistinct'
           /\ iv_pkt_bufid' = iv_pkt_bufid
           /\ \A id \in Bufids : outport_num'[id] = CountOf(id)
<1>1. /\ fifo \in Seq(Bufids)
      /\ o_pkt_bufid \in Bufids \cup {NoBufid}
      /\ outport_num \in [Bufids -> 0 .. NumPorts]
  BY DEF OwnerInv, Inv, TypeOK, FifoTypeOK, AwrTypeOK
<1>2. \A id \in Bufids : outport_num'[id] = CountOf(id)
  BY <1>1 DEF MemoryPorts, RamWritePort, CountOf
<1>3. CASE o_pkt_bufid = NoBufid
  <2>1. fifo' = fifo /\ iv_pkt_bufid' = iv_pkt_bufid
    BY <1>3 DEF MemoryPorts, FifoWritePort, fifoVars
  <2>2. \A id \in Bufids : ~Storing(id)
    BY <1>3, NoBufidAssumption DEF Storing
  <2> QED
    BY <1>2, <2>1, <2>2 DEF OwnerInv, FifoDistinct, InFifo
<1>4. CASE o_pkt_bufid # NoBufid
  <2>1. o_pkt_bufid \in Bufids /\ ~InFifo(o_pkt_bufid)
    BY <1>1, <1>4 DEF OwnerInv, PlacesInv, OnePlace, Storing
  <2>2. ~Full
    BY <1>1, <2>1, FifoRoom DEF OwnerInv
  <2>3. fifo' = Append(fifo, o_pkt_bufid) /\ iv_pkt_bufid' = iv_pkt_bufid
    BY <1>4, <2>2 DEF MemoryPorts, FifoWritePort, StoreBufid
  <2>4. /\ Len(fifo) \in Nat
        /\ Len(fifo') = Len(fifo) + 1
        /\ \A i \in 1 .. Len(fifo) : fifo'[i] = fifo[i]
        /\ fifo'[Len(fifo) + 1] = o_pkt_bufid
    BY <1>1, <2>1, <2>3
  <2>5. \A id \in Bufids : InFifo(id)' <=> InFifo(id) \/ Storing(id)
    <3> SUFFICES ASSUME NEW id \in Bufids
                 PROVE  InFifo(id)' <=> InFifo(id) \/ Storing(id)
      OBVIOUS
    <3>1. InFifo(id)' => InFifo(id) \/ Storing(id)
      BY <2>4 DEF InFifo, Storing
    <3>2. InFifo(id) => InFifo(id)'
      BY <2>4 DEF InFifo
    <3>3. Storing(id) => InFifo(id)'
      BY <2>4 DEF InFifo, Storing
    <3> QED
      BY <3>1, <3>2, <3>3
  <2>6. FifoDistinct'
    BY <2>1, <2>4 DEF OwnerInv, FifoDistinct, InFifo
  <2> QED
    BY <1>2, <2>3, <2>5, <2>6
<1> QED
  BY <1>3, <1>4

----------------------------------------------------------------------------
(* What every cycle of address_write does to the places: the id that was to*)
(* be stored is in the FIFO, and the reader's and the ports' places stay.  *)
LEMMA WriterFrame ==
    ASSUME OwnerInv, AddressWriteCycle
    PROVE  /\ \A id \in Bufids :
                 /\ InFifo(id)' <=> InFifo(id) \/ Storing(id)
                 /\ InFetched(id)' <=> InFetched(id)
                 /\ Offered(id)' <=> Offered(id)
                 /\ Received(id)' <=> Received(id)
                 /\ outport_num'[id] = CountOf(id)
           /\ FifoDistinct' /\ OffersDistinct' /\ ReceivedDistinct'
           /\ AckInv' /\ MonitorInv'
<1>1. MemoryPorts /\ MonitorStore /\ UNCHANGED <<ardVars, portVars>>
  BY DEF AddressWriteCycle, WriteCycle, InitialStore, PollRelease, WaitRam1,
         WaitRam2, DecrementOrFree
<1>2. /\ \A id \in Bufids : InFifo(id)' <=> InFifo(id) \/ Storing(id)
      /\ FifoDistinct'
      /\ iv_pkt_bufid' = iv_pkt_bufid
      /\ \A id \in Bufids : outport_num'[id] = CountOf(id)
  BY <1>1, StoreLemma
<1>3. \A id \in Bufids : /\ InFetched(id)' <=> InFetched(id)
                         /\ Offered(id)' <=> Offered(id)
                         /\ Received(id)' <=> Received(id)
  BY <1>1, <1>2 DEF InFetched, Fetched, Offered, Received, ardVars, portVars
<1>4. OffersDistinct' /\ ReceivedDistinct' /\ AckInv'
  BY <1>1 DEF OwnerInv, OffersDistinct, ReceivedDistinct, AckInv, ardVars, portVars
<1>5. MonitorInv'
  <2>1. o_pkt_bufid \in Bufids \cup {NoBufid}
    BY DEF OwnerInv, Inv, TypeOK, AwrTypeOK
  <2>2. /\ bufid_state = {id \in Bufids : InFifo(id)}
        /\ bufid_overflow_cnt = 0 /\ bufid_underflow_cnt = 0
    BY DEF OwnerInv, MonitorInv, MonitorsQuiet
  <2>3. CASE o_pkt_bufid = NoBufid
    <3>1. \A id \in Bufids : InFifo(id)' <=> InFifo(id)
      BY <1>2, <2>3, NoBufidAssumption DEF Storing
    <3>2. UNCHANGED monitorVars
      BY <1>1, <2>3 DEF MonitorStore, monitorVars
    <3> QED
      BY <2>2, <3>1, <3>2 DEF MonitorInv, MonitorsQuiet, monitorVars
  <2>4. CASE o_pkt_bufid # NoBufid
    <3>1. o_pkt_bufid \in Bufids /\ ~InFifo(o_pkt_bufid)
      BY <2>1, <2>4 DEF OwnerInv, PlacesInv, OnePlace, Storing
    <3>2. o_pkt_bufid \notin bufid_state
      BY <2>2, <3>1
    <3>3. /\ bufid_state' = bufid_state \cup {o_pkt_bufid}
          /\ bufid_overflow_cnt' = 0 /\ bufid_underflow_cnt' = 0
      BY <1>1, <2>2, <2>4, <3>2 DEF MonitorStore
    <3>4. bufid_state' = {id \in Bufids : InFifo(id)'}
      BY <1>2, <2>2, <3>1, <3>3 DEF Storing
    <3> QED
      BY <3>3, <3>4 DEF MonitorInv, MonitorsQuiet
  <2> QED
    BY <2>3, <2>4
<1> QED
  BY <1>2, <1>3, <1>4, <1>5

(* initial_s: the next id leaves the reset store.                          *)
LEMMA InitialStoreKeeps ==
    ASSUME OwnerInv, AddressWriteCycle, InitialStore
    PROVE  Ownership' /\ SameCopies
<1>0. /\ NumPorts \in Nat /\ NumBufids \in Nat
      /\ bufid_send_cnt \in NumPorts .. NumBufids - 1
      /\ LastStored = NumBufids - 1
  BY NumPortsAssumption, NumBufidsAssumption
     DEF OwnerInv, Inv, TypeOK, AwrTypeOK, LastStored
<1>1. /\ awr_state = "initial_s"
      /\ o_pkt_bufid' = bufid_send_cnt
      /\ \/ /\ bufid_send_cnt' = bufid_send_cnt + 1 /\ awr_state' = awr_state
         \/ /\ bufid_send_cnt = NumBufids - 1 /\ awr_state' = "wr_bufid_ch_s"
      /\ UNCHANGED <<outport_reg, bufid_addr, wr_bufid_wr, release, queued, ard_state>>
  BY <1>0 DEF InitialStore, AddressWriteCycle, ardVars, portVars
<1>2. \A id \in Bufids :
         /\ InReset(id)' <=> InReset(id) /\ id # bufid_send_cnt
         /\ Storing(id)' <=> id = bufid_send_cnt
  BY <1>0, <1>1 DEF InReset, Storing, Bufids
<1>3. \A id : Copies(id)' = Copies(id)
  BY <1>1 DEF Copies, InService
<1>4. \A id \in Bufids : Shared(id)' <=> Shared(id)
  BY <1>3 DEF Shared
<1>5. \A id \in Bufids : id = bufid_send_cnt => InReset(id)
  BY <1>0, <1>1 DEF InReset
<1>6. PlacesInv'
  BY <1>2, <1>4, <1>5, WriterFrame DEF OwnerInv, PlacesInv, OnePlace
<1>7. CopyOnce'
  BY <1>1 DEF OwnerInv, CopyOnce, InService
<1>8. ~wr_bufid_wr /\ WriterInv'
  BY <1>1, <1>3 DEF OwnerInv, WriterInv
<1>9. CountIsCopies'
  BY <1>1, <1>3, <1>8, WriterFrame DEF OwnerInv, CountIsCopies, CountOf
<1> QED
  BY <1>3, <1>6, <1>7, <1>8, <1>9, WriterFrame DEF Ownership, SameCopies

(* The polling keeps the copies: a request that is read stays a request    *)
(* until its port is in service.                                           *)
LEMMA PollReleaseKeeps ==
    ASSUME OwnerInv, AddressWriteCycle, NEW n \in Ports, PollRelease(n)
    PROVE  Ownership' /\ SameCopies
<1>1. /\ awr_state = "wr_bufid_ch_s" /\ outport_reg = n
      /\ o_pkt_bufid' = NoBufid /\ ~wr_bufid_wr'
      /\ \/ /\ awr_state' = "wait_for_ram1" /\ outport_reg' = n
            /\ bufid_addr' = release[n]
         \/ awr_state' = "wr_bufid_ch_s"
      /\ UNCHANGED <<bufid_send_cnt, release, queued, ard_state>>
  BY DEF PollRelease, AddressWriteCycle, ardVars, portVars
<1>2. \A id \in Bufids : /\ InReset(id)' <=> InReset(id)
                         /\ ~Storing(id)'
  BY <1>1, NoBufidAssumption DEF InReset, Storing
<1>3. \A id : Copies(id)' = Copies(id)
  BY <1>1 DEF Copies, InService
<1>4. \A id \in Bufids : Shared(id)' <=> Shared(id)
  BY <1>3 DEF Shared
<1>6. PlacesInv'
  BY <1>2, <1>4, WriterFrame DEF OwnerInv, PlacesInv, OnePlace
<1>7. CopyOnce'
  BY <1>1 DEF OwnerInv, CopyOnce, InService
<1>8. WriterInv'
  BY <1>1 DEF WriterInv
<1>9. CountIsCopies'
  BY <1>1, <1>3, WriterFrame DEF OwnerInv, CountIsCopies, CountOf
<1> QED
  BY <1>3, <1>6, <1>7, <1>8, <1>9, WriterFrame DEF Ownership, SameCopies

(* The RAM read: the port's copy passes from its request into service.     *)
LEMMA WaitRam1Keeps ==
    ASSUME OwnerInv, AddressWriteCycle, WaitRam1
    PROVE  Ownership' /\ SameCopies
<1>0. /\ bufid_addr \in Bufids /\ outport_reg \in Ports
      /\ release \in [Ports -> Bufids \cup {NoBufid}]
  BY DEF OwnerInv, Inv, TypeOK, AwrTypeOK
<1>1. /\ awr_state = "wait_for_ram1" /\ awr_state' = "wait_for_ram2"
      /\ rd_outport_num' = outport_num[bufid_addr]
      /\ release' = [release EXCEPT ![outport_reg] = NoBufid]
      /\ UNCHANGED <<outport_reg, bufid_send_cnt, o_pkt_bufid, bufid_addr,
                     wr_bufid_wr, queued, ard_state>>
  BY DEF WaitRam1, AddressWriteCycle, ardVars, portVars
<1>2. /\ o_pkt_bufid = NoBufid /\ ~wr_bufid_wr
      /\ release[outport_reg] = bufid_addr
  BY <1>1 DEF OwnerInv, WriterInv
<1>3. \A id \in Bufids : /\ InReset(id)' <=> InReset(id)
                         /\ ~Storing(id) /\ ~Storing(id)'
  BY <1>1, <1>2, NoBufidAssumption DEF InReset, Storing
<1>4. \A id \in Bufids : Copies(id)' = Copies(id)
  BY <1>0, <1>1, <1>2, NoBufidAssumption DEF Copies, InService
<1>5. \A id \in Bufids : Shared(id)' <=> Shared(id)
  BY <1>4 DEF Shared
<1>6. PlacesInv'
  BY <1>3, <1>5, WriterFrame DEF OwnerInv, PlacesInv, OnePlace
<1>7. CopyOnce'
  BY <1>0, <1>1, <1>2, NoBufidAssumption DEF OwnerInv, CopyOnce, InService
<1>8. /\ Copies(bufid_addr) # {}
      /\ CountOf(bufid_addr) = outport_num[bufid_addr]
  BY <1>0, <1>2 DEF Copies, CountOf
<1>9. rd_outport_num' = Cardinality(Copies(bufid_addr))
  BY <1>0, <1>1, <1>8 DEF OwnerInv, CountIsCopies
<1>10. Copies(bufid_addr)' = Copies(bufid_addr)
  BY <1>0, <1>1, <1>2, NoBufidAssumption DEF Copies, InService
<1>11. WriterInv'
  BY <1>1, <1>2, <1>9, <1>10 DEF WriterInv
<1>12. CountIsCopies'
  BY <1>1, <1>2, <1>4, WriterFrame DEF OwnerInv, CountIsCopies, CountOf
<1> QED
  BY <1>4, <1>6, <1>7, <1>11, <1>12, WriterFrame DEF Ownership, SameCopies

(* The second cycle of the read's latency changes nobody's copy.           *)
LEMMA WaitRam2Keeps ==
    ASSUME OwnerInv, AddressWriteCycle, WaitRam2
    PROVE  Ownership' /\ SameCopies
<1>1. /\ awr_state = "wait_for_ram2" /\ awr_state' = "rd_ram"
      /\ UNCHANGED <<outport_reg, bufid_send_cnt, o_pkt_bufid, bufid_addr,
                     wr_bufid_wr, rd_outport_num, release, queued, ard_state>>
  BY DEF WaitRam2, AddressWriteCycle, ardVars, portVars
<1>2. o_pkt_bufid = NoBufid /\ ~wr_bufid_wr
  BY <1>1 DEF OwnerInv, WriterInv
<1>3. \A id \in Bufids : /\ InReset(id)' <=> InReset(id)
                         /\ ~Storing(id) /\ ~Storing(id)'
  BY <1>1, <1>2, NoBufidAssumption DEF InReset, Storing
<1>4. \A id : Copies(id)' = Copies(id)
  BY <1>1 DEF Copies, InService
<1>5. \A id \in Bufids : Shared(id)' <=> Shared(id)
  BY <1>4 DEF Shared
<1>6. PlacesInv'
  BY <1>3, <1>5, WriterFrame DEF OwnerInv, PlacesInv, OnePlace
<1>7. CopyOnce'
  BY <1>1 DEF OwnerInv, CopyOnce, InService
<1>8. Copies(bufid_addr)' = Copies(bufid_addr)
  BY <1>1 DEF Copies, InService
<1>9. WriterInv'
  BY <1>1, <1>2, <1>8 DEF OwnerInv, WriterInv
<1>10. CountIsCopies'
  BY <1>1, <1>2, <1>4, WriterFrame DEF OwnerInv, CountIsCopies, CountOf
<1> QED
  BY <1>4, <1>6, <1>7, <1>9, <1>10, WriterFrame DEF Ownership, SameCopies

(* rd_ram: the copy in service is accounted for.  The count read is the    *)
(* number of copies, so the id is stored exactly when this was the last.   *)
LEMMA DecrementOrFreeKeeps ==
    ASSUME OwnerInv, AddressWriteCycle, DecrementOrFree
    PROVE  /\ Ownership'
           /\ outport_reg \in Copies(bufid_addr)
           /\ \A id \in Bufids : Copies(id)' =
                 IF id = bufid_addr THEN Copies(id) \ {outport_reg} ELSE Copies(id)
<1> DEFINE x == bufid_addr
           r == outport_reg
<1>0. /\ x \in Bufids /\ r \in Ports
      /\ fifo \in Seq(Bufids)
  BY DEF OwnerInv, Inv, TypeOK, AwrTypeOK, FifoTypeOK
<1>1. /\ awr_state = "rd_ram" /\ awr_state' = "wr_bufid_ch_s"
      /\ UNCHANGED <<bufid_send_cnt, bufid_addr, release, queued, ard_state>>
  BY DEF DecrementOrFree, AddressWriteCycle, ardVars, portVars
<1>2. /\ o_pkt_bufid = NoBufid /\ ~wr_bufid_wr
      /\ rd_outport_num = Cardinality(Copies(x))
  BY <1>1 DEF OwnerInv, WriterInv
<1>3. r \in Copies(x)
  BY <1>0, <1>1 DEF Copies, InService
<1>4. ~Full
  <2>1. ~InFifo(x)
    BY <1>0, <1>3 DEF OwnerInv, PlacesInv, OnePlace, Shared
  <2> QED
    BY <1>0, <2>1, FifoRoom DEF OwnerInv
<1>5. \A id \in Bufids : Copies(id)' = IF id = x THEN Copies(id) \ {r} ELSE Copies(id)
  BY <1>0, <1>1 DEF OwnerInv, CopyOnce, Copies, InService
<1>6. Copies(bufid_addr)' = Copies(x) \ {r}
  BY <1>0, <1>1 DEF OwnerInv, CopyOnce, Copies, InService
<1>7. /\ Cardinality(Copies(x)) \in Nat
      /\ Cardinality(Copies(x) \ {r}) = Cardinality(Copies(x)) - 1
      /\ Cardinality(Copies(x) \ {r}) = 0 <=> Copies(x) = {r}
      /\ Cardinality(Copies(x)) = 0 <=> Copies(x) = {}
  BY <1>3, CopiesFinite
<1>8. \A id \in Bufids : /\ InReset(id)' <=> InReset(id)
                         /\ ~Storing(id)
  BY <1>1, <1>2, NoBufidAssumption DEF InReset, Storing
<1>9. CopyOnce'
  BY <1>1 DEF OwnerInv, CopyOnce, InService
<1>. SUFFICES Ownership'
  BY <1>3, <1>5
<1>10. CASE MoreCopies(rd_outport_num)
  <2>1. /\ wr_outport_num' = rd_outport_num - 1
        /\ wr_bufid_wr' = TRUE
        /\ o_pkt_bufid' = NoBufid
    BY <1>2, <1>10 DEF DecrementOrFree
  <2>2. Copies(x) \ {r} # {}
    BY <1>2, <1>7, <1>10, FS_EmptySet DEF MoreCopies
  <2>3. \A id \in Bufids : /\ Shared(id)' <=> Shared(id)
                           /\ ~Storing(id)'
    BY <1>3, <1>5, <2>1, <2>2, NoBufidAssumption DEF Shared, Storing
  <2>4. PlacesInv'
    BY <1>8, <2>3, WriterFrame DEF OwnerInv, PlacesInv, OnePlace
  <2>5. WriterInv'
    BY <1>1, <1>6, <2>2 DEF WriterInv
  <2>6. CountIsCopies'
    <3>1. ASSUME NEW id \in Bufids, Copies(id)' # {}
          PROVE  CountOf(id)' = Cardinality(Copies(id)')
      <4>1. CASE id = x
        <5>1. CountOf(id)' = wr_outport_num'
          BY <1>1, <2>1, <4>1 DEF CountOf
        <5> QED
          BY <1>0, <1>2, <1>5, <1>7, <2>1, <4>1, <5>1
      <4>2. CASE id # x
        <5>1. CountOf(id)' = CountOf(id)
          BY <1>1, <4>2, WriterFrame DEF CountOf
        <5> QED
          BY <1>5, <3>1, <4>2, <5>1 DEF OwnerInv, CountIsCopies
      <4> QED
        BY <4>1, <4>2
    <3> QED
      BY <3>1 DEF CountIsCopies
  <2> QED
    BY <1>9, <2>4, <2>5, <2>6, WriterFrame DEF Ownership
<1>11. CASE ~MoreCopies(rd_outport_num)
  <2>1. wr_bufid_wr' = FALSE /\ o_pkt_bufid' = x
    BY <1>4, <1>11 DEF DecrementOrFree
  <2>2. Copies(x) = {r}
    BY <1>2, <1>3, <1>7, <1>11 DEF MoreCopies
  <2>3. \A id \in Bufids : /\ Shared(id)' <=> Shared(id) /\ id # x
                           /\ Storing(id)' <=> id = x
    BY <1>5, <2>1, <2>2 DEF Shared, Storing
  <2>4. Shared(x)
    BY <1>3 DEF Shared
  <2>5. PlacesInv'
    BY <1>8, <2>3, <2>4, WriterFrame DEF OwnerInv, PlacesInv, OnePlace
  <2>6. WriterInv'
    BY <1>1, <2>1 DEF WriterInv
  <2>7. CountIsCopies'
    <3>1. ASSUME NEW id \in Bufids, Copies(id)' # {}
          PROVE  CountOf(id)' = Cardinality(Copies(id)')
      <4>1. id # x /\ Copies(id)' = Copies(id)
        BY <1>5, <2>2, <3>1
      <4>2. CountOf(id)' = CountOf(id)
        BY <2>1, WriterFrame DEF CountOf
      <4> QED
        BY <3>1, <4>1, <4>2 DEF OwnerInv, CountIsCopies
    <3> QED
      BY <3>1 DEF CountIsCopies
  <2> QED
    BY <1>9, <2>5, <2>6, <2>7, WriterFrame DEF Ownership
<1> QED
  BY <1>10, <1>11

----------------------------------------------------------------------------
(* A cycle of address_read does not touch the copies, their counts and the *)
(* ids that ports have received.                                           *)
LEMMA ReaderFrame ==
    ASSUME OwnerInv, UNCHANGED awrVars, UNCHANGED portVars,
           \A p \in Ports : ack'[p] => ack[p]
    PROVE  /\ \A id \in Bufids : /\ Received(id)' <=> Received(id)
                                 /\ Shared(id)' <=> Shared(id)
                                 /\ Storing(id)' <=> Storing(id)
           /\ ReceivedDistinct' /\ CopyOnce' /\ WriterInv' /\ CountIsCopies' /\ AckInv'
           /\ SameCopies
<1>1. \A id : Copies(id)' = Copies(id)
  BY DEF Copies, InService, awrVars, portVars
<1>2. Copies(bufid_addr)' = Copies(bufid_addr)
  BY DEF Copies, InService, awrVars, portVars
<1>3. \A id \in Bufids : /\ Received(id)' <=> Received(id)
                         /\ Shared(id)' <=> Shared(id)
                         /\ Storing(id)' <=> Storing(id)
  BY <1>1 DEF Received, Shared, Storing, awrVars, portVars
<1>4. ReceivedDistinct' /\ CopyOnce'
  BY DEF OwnerInv, ReceivedDistinct, CopyOnce, InService, awrVars, portVars
<1>5. WriterInv'
  BY <1>2 DEF OwnerInv, WriterInv, awrVars
<1>6. CountIsCopies'
  BY <1>1 DEF OwnerInv, CountIsCopies, CountOf, awrVars
<1>7. AckInv'
  BY DEF OwnerInv, AckInv, portVars
<1> QED
  BY <1>1, <1>3, <1>4, <1>5, <1>6, <1>7 DEF SameCopies

(* initial_s: the first ids pass from the reset store to the ports.        *)
LEMMA InitialOfferKeeps ==
    ASSUME OwnerInv, AddressReadCycle, InitialOffer
    PROVE  Ownership' /\ SameCopies
<1>0. /\ NumPorts \in Nat /\ bufid_send_cnt \in NumPorts .. NumBufids - 1
      /\ NumBufids \in Nat
  BY NumPortsAssumption, NumBufidsAssumption DEF OwnerInv, Inv, TypeOK, AwrTypeOK
<1>1. /\ ard_state = "initial_s" /\ ard_state' = "rd_bufid_ch_s"
      /\ offer' = [p \in Ports |-> p]
      /\ UNCHANGED <<ack, rd_valid, fifo, iv_pkt_bufid>>
      /\ UNCHANGED monitorVars /\ UNCHANGED awrVars /\ UNCHANGED portVars
  BY DEF InitialOffer, AddressReadCycle, MonitorFetch, fifoVars, monitorVars
<1>2. /\ rd_valid = {}
      /\ \A p \in Ports : offer[p] = NoBufid /\ ~ack[p]
  BY <1>1 DEF OwnerInv, Inv, ReaderInv
<1>3. \A id \in Bufids : /\ ~InFetched(id) /\ ~InFetched(id)'
                         /\ InFifo(id)' <=> InFifo(id)
                         /\ ~Offered(id)
  BY <1>1, <1>2, NoBufidAssumption DEF InFetched, Fetched, InFifo, Offered
<1>4. \A id \in Bufids : Offered(id)' <=> id \in Ports
  BY <1>1, <1>2 DEF Offered
<1>5. \A id \in Bufids : id \in Ports <=> id < NumPorts
  BY <1>0 DEF Bufids, Ports
<1>6. \A id \in Bufids : InReset(id) <=> InReset(id)' \/ id \in Ports
  BY <1>1, <1>5 DEF InReset, awrVars
<1>7. \A id \in Bufids : InReset(id)' => id \notin Ports
  BY <1>0, <1>1, <1>5 DEF InReset, awrVars, Bufids
<1>8. PlacesInv'
  BY <1>1, <1>3, <1>4, <1>6, <1>7, ReaderFrame DEF OwnerInv, PlacesInv, OnePlace
<1>9. FifoDistinct' /\ OffersDistinct' /\ MonitorInv'
  BY <1>1, <1>3 DEF OwnerInv, FifoDistinct, OffersDistinct, MonitorInv,
                    MonitorsQuiet, monitorVars
<1> QED
  BY <1>1, <1>8, <1>9, ReaderFrame DEF Ownership

(* rd_bufid_chN_s: an offer that was acknowledged is gone, the others stay,*)
(* and the word fetched is offered to the port it was fetched for.         *)
LEMMA PollChannelKeeps ==
    ASSUME OwnerInv, AddressReadCycle, NEW n \in Ports, PollChannel(n)
    PROVE  Ownership' /\ SameCopies
<1> DEFINE v == PrevPort(n)
           taken == v \in rd_valid
<1>0. /\ v \in Ports /\ v # n
      /\ offer \in [Ports -> Bufids \cup {NoBufid}]
      /\ ack \in [Ports -> BOOLEAN]
      /\ reg_bufid_ack \in [Ports -> BOOLEAN]
      /\ iv_pkt_bufid \in Bufids \cup {NoBufid}
  BY RingLemma DEF OwnerInv, Inv, TypeOK, ArdTypeOK, FifoTypeOK
<1>1. /\ ard_state = "rd_bufid_ch_s" /\ ard_ch = n
      /\ offer' = [p \in Ports |-> OfferAfterPoll(n, p)]
      /\ ack' = [p \in Ports |-> FALSE]
      /\ UNCHANGED <<fifo, iv_pkt_bufid>>
      /\ UNCHANGED monitorVars /\ UNCHANGED awrVars /\ UNCHANGED portVars
      /\ \/ ard_state' = "wait_1s"
         \/ ard_state' = ard_state /\ rd_valid' = rd_valid \ {v, n}
  BY DEF PollChannel, AddressReadCycle, MonitorFetch, fifoVars, monitorVars
<1>2. rd_valid \subseteq {v}
  BY <1>1 DEF OwnerInv, Inv, ReaderInv
<1>3. /\ taken => offer[v] = NoBufid
      /\ \A p \in Ports : offer[p] # NoBufid => ~reg_bufid_ack[p]
  BY DEF OwnerInv, Inv, ReaderInv
<1>4. \A p \in Ports : offer'[p] = IF p = v /\ taken THEN iv_pkt_bufid
                                   ELSE IF ack[p] THEN NoBufid ELSE offer[p]
  BY <1>0, <1>1, <1>3 DEF OfferAfterPoll, Served, Taking
<1>5. \A id \in Bufids : /\ InFetched(id) <=> taken /\ iv_pkt_bufid = id
                         /\ ~InFetched(id)'
                         /\ InFifo(id)' <=> InFifo(id)
                         /\ InReset(id)' <=> InReset(id)
  BY <1>1, <1>2 DEF InFetched, Fetched, InFifo, InReset, awrVars
<1>6. \A id \in Bufids : Offered(id)' <=> Offered(id) \/ InFetched(id)
  <2> SUFFICES ASSUME NEW id \in Bufids
               PROVE  Offered(id)' <=> Offered(id) \/ InFetched(id)
    OBVIOUS
  <2>1. id # NoBufid
    BY NoBufidAssumption
  <2>2. Offered(id)' => Offered(id) \/ InFetched(id)
    BY <1>1, <1>4, <1>5, <2>1 DEF Offered
  <2>3. Offered(id) => Offered(id)'
    BY <1>0, <1>1, <1>3, <1>4, <2>1 DEF Offered
  <2>4. InFetched(id) => Offered(id)'
    BY <1>0, <1>1, <1>4, <1>5 DEF Offered
  <2> QED
    BY <2>2, <2>3, <2>4
<1>7. \A p \in Ports : ~ack'[p]
  BY <1>1
<1>8. PlacesInv'
  BY <1>1, <1>5, <1>6, <1>7, ReaderFrame DEF OwnerInv, PlacesInv, OnePlace
<1>9. OffersDistinct'
  <2>1. SUFFICES ASSUME NEW p \in Ports, NEW q \in Ports,
                        offer'[p] # NoBufid, offer'[p] = offer'[q]
                 PROVE  p = q
    BY DEF OffersDistinct
  <2>2. CASE taken /\ iv_pkt_bufid \in Bufids
    <3>1. ~Offered(iv_pkt_bufid)
      BY <1>5, <2>2 DEF OwnerInv, PlacesInv, OnePlace
    <3> QED
      BY <1>0, <1>4, <2>1, <2>2, <3>1 DEF OwnerInv, OffersDistinct, Offered
  <2>3. CASE ~(taken /\ iv_pkt_bufid \in Bufids)
    BY <1>0, <1>4, <2>1, <2>3 DEF OwnerInv, OffersDistinct
  <2> QED
    BY <2>2, <2>3
<1>10. FifoDistinct' /\ MonitorInv'
  BY <1>1, <1>5 DEF OwnerInv, FifoDistinct, MonitorInv, MonitorsQuiet, monitorVars
<1> QED
  BY <1>1, <1>7, <1>8, <1>9, <1>10, ReaderFrame DEF Ownership

(* wait_1s: the oldest id leaves the FIFO for the read register.           *)
LEMMA WaitFifoKeeps ==
    ASSUME OwnerInv, AddressReadCycle, WaitFifo
    PROVE  Ownership' /\ SameCopies
<1>0. /\ fifo \in Seq(Bufids) /\ visible \in 0 .. Len(fifo)
      /\ offer \in [Ports -> Bufids \cup {NoBufid}]
      /\ ack \in [Ports -> BOOLEAN]
  BY DEF OwnerInv, Inv, TypeOK, ArdTypeOK, FifoTypeOK
<1>1. /\ ard_state = "wait_1s" /\ ard_state' = "rd_bufid_ch_s"
      /\ offer' = [p \in Ports |-> IF ack[p] THEN NoBufid ELSE offer[p]]
      /\ ack' = [p \in Ports |-> FALSE]
      /\ rd_valid' = rd_valid
      /\ FetchBufid
      /\ UNCHANGED awrVars /\ UNCHANGED portVars
  BY DEF WaitFifo, AddressReadCycle
<1>2. rd_valid # {} /\ ~Empty
  BY <1>1 DEF OwnerInv, Inv, ReaderInv
<1>3. /\ iv_pkt_bufid' = Head(fifo) /\ fifo' = Tail(fifo)
      /\ Len(fifo) > 0
  BY <1>0, <1>1, <1>2 DEF FetchBufid, Empty
<1>4. /\ Head(fifo) = fifo[1] /\ fifo[1] \in Bufids
      /\ Len(fifo) \in Nat /\ Len(fifo') = Len(fifo) - 1
      /\ \A i \in 1 .. Len(fifo') : fifo'[i] = fifo[i + 1]
  BY <1>0, <1>3
<1>5. \A id \in Bufids : /\ ~InFetched(id)
                         /\ InFetched(id)' <=> id = fifo[1]
                         /\ InReset(id)' <=> InReset(id)
  BY <1>1, <1>2, <1>3, <1>4 DEF InFetched, Fetched, InReset, awrVars
<1>6. \A id \in Bufids : InFifo(id)' <=> InFifo(id) /\ id # fifo[1]
  <2> SUFFICES ASSUME NEW id \in Bufids
               PROVE  InFifo(id)' <=> InFifo(id) /\ id # fifo[1]
    OBVIOUS
  <2>1. InFifo(id)' => InFifo(id) /\ id # fifo[1]
    BY <1>3, <1>4 DEF OwnerInv, FifoDistinct, InFifo
  <2>2. ASSUME InFifo(id), id # fifo[1] PROVE InFifo(id)'
    <3>1. PICK i \in 1 .. Len(fifo) : fifo[i] = id
      BY <2>2 DEF InFifo
    <3>2. i - 1 \in 1 .. Len(fifo') /\ fifo'[i - 1] = id
      BY <1>4, <2>2, <3>1
    <3> QED
      BY <3>2 DEF InFifo
  <2> QED
    BY <2>1, <2>2
<1>7. InFifo(fifo[1])
  BY <1>3, <1>4 DEF InFifo
<1>8. \A id \in Bufids : Offered(id)' <=> Offered(id)
  BY <1>0, <1>1, NoBufidAssumption DEF Offered
<1>9. \A p \in Ports : ~ack'[p]
  BY <1>1
<1>10. PlacesInv'
  BY <1>1, <1>5, <1>6, <1>7, <1>8, <1>9, ReaderFrame DEF OwnerInv, PlacesInv, OnePlace
<1>11. FifoDistinct'
  BY <1>4 DEF OwnerInv, FifoDistinct
<1>12. OffersDistinct'
  BY <1>0, <1>1 DEF OwnerInv, OffersDistinct
<1>13. MonitorInv'
  <2>1. fifo[1] \in bufid_state
    BY <1>4, <1>7 DEF OwnerInv, MonitorInv
  <2>2. /\ bufid_state' = bufid_state \ {fifo[1]}
        /\ bufid_underflow_cnt' = 0 /\ bufid_overflow_cnt' = 0
    BY <1>1, <1>3, <1>4, <2>1
       DEF OwnerInv, MonitorInv, MonitorsQuiet, AddressReadCycle, MonitorFetch
  <2>3. bufid_state' = {id \in Bufids : InFifo(id)'}
    BY <1>6, <2>2 DEF OwnerInv, MonitorInv
  <2> QED
    BY <2>2, <2>3 DEF MonitorInv, MonitorsQuiet
<1> QED
  BY <1>1, <1>9, <1>10, <1>11, <1>12, <1>13, ReaderFrame DEF Ownership

----------------------------------------------------------------------------
(* Steps of the ports that leave the FIFO and the writer's registers alone.*)
LEMMA PortFrame ==
    ASSUME OwnerInv, UNCHANGED <<fifo, iv_pkt_bufid, ard_state, rd_valid, offer>>,
           UNCHANGED <<awr_state, outport_reg, bufid_send_cnt, o_pkt_bufid,
                       bufid_addr, wr_bufid_wr, wr_outport_num, rd_outport_num>>,
           UNCHANGED monitorVars
    PROVE  /\ \A id \in Bufids : /\ InReset(id)' <=> InReset(id)
                                 /\ InFifo(id)' <=> InFifo(id)
                                 /\ InFetched(id)' <=> InFetched(id)
                                 /\ Storing(id)' <=> Storing(id)
           /\ FifoDistinct' /\ MonitorInv'
<1>1. \A id \in Bufids : /\ InReset(id)' <=> InReset(id)
                         /\ InFifo(id)' <=> InFifo(id)
                         /\ InFetched(id)' <=> InFetched(id)
                         /\ Storing(id)' <=> Storing(id)
  BY DEF InReset, InFifo, InFetched, Fetched, Storing
<1> QED
  BY <1>1 DEF OwnerInv, FifoDistinct, MonitorInv, MonitorsQuiet, monitorVars

(* A step that only changes what the read side knows of the FIFO and what  *)
(* a port parses.                                                          *)
LEMMA QuietStepKeeps ==
    ASSUME OwnerInv, UNCHANGED <<fifo, iv_pkt_bufid>>, UNCHANGED ardVars,
           UNCHANGED awrVars, UNCHANGED <<in_bufid, queued>>, UNCHANGED monitorVars,
           \A p \in Ports : ack[p] => in_state'[p] = in_state[p]
    PROVE  Ownership' /\ SameCopies
<1>1. \A id : Copies(id)' = Copies(id)
  BY DEF Copies, InService, awrVars
<1>2. Copies(bufid_addr)' = Copies(bufid_addr)
  BY DEF Copies, InService, awrVars
<1>3. \A id \in Bufids : /\ Offered(id)' <=> Offered(id)
                         /\ Received(id)' <=> Received(id)
                         /\ Shared(id)' <=> Shared(id)
  BY <1>1 DEF Offered, Received, Shared, ardVars
<1>4. UNCHANGED <<ard_state, rd_valid, offer, ack, reg_bufid_ack>>
  BY DEF ardVars
<1>5. UNCHANGED <<awr_state, outport_reg, bufid_send_cnt, o_pkt_bufid, bufid_addr,
                  wr_bufid_wr, wr_outport_num, rd_outport_num, outport_num, release>>
  BY DEF awrVars
<1>6. PlacesInv' /\ FifoDistinct' /\ MonitorInv'
  BY <1>3, <1>4, <1>5, PortFrame DEF OwnerInv, PlacesInv, OnePlace
<1>7. OffersDistinct' /\ ReceivedDistinct' /\ CopyOnce' /\ AckInv'
  BY <1>4, <1>5 DEF OwnerInv, OffersDistinct, ReceivedDistinct, CopyOnce, AckInv, InService
<1>8. WriterInv'
  BY <1>2, <1>5 DEF OwnerInv, WriterInv
<1>9. CountIsCopies'
  BY <1>1, <1>5 DEF OwnerInv, CountIsCopies, CountOf
<1> QED
  BY <1>1, <1>6, <1>7, <1>8, <1>9 DEF Ownership, SameCopies

(* The offered id passes to the port that takes it.                        *)
LEMMA TakeBufidKeeps ==
    ASSUME OwnerInv, NEW p \in Wired, TakeBufid(p)
    PROVE  Ownership' /\ SameCopies
<1> DEFINE x == offer[p]
<1>0. /\ p \in Ports
      /\ offer \in [Ports -> Bufids \cup {NoBufid}]
      /\ ack \in [Ports -> BOOLEAN]
      /\ in_bufid \in [Ports -> Bufids \cup {NoBufid}]
      /\ in_state \in [Ports -> {"idle", "parsing", "wait_des_ack"}]
  BY WiredAssumption DEF OwnerInv, Inv, TypeOK, ArdTypeOK
<1>1. /\ in_state[p] = "parsing" /\ offer[p] # NoBufid
      /\ ack' = [ack EXCEPT ![p] = TRUE]
      /\ in_bufid' = [in_bufid EXCEPT ![p] = offer[p]]
      /\ in_state' = [in_state EXCEPT ![p] = "wait_des_ack"]
      /\ UNCHANGED <<fifo, iv_pkt_bufid, ard_state, rd_valid, offer, queued>>
      /\ UNCHANGED awrVars /\ UNCHANGED monitorVars
  BY DEF TakeBufid, fifoVars, monitorVars
<1>2. /\ x \in Bufids /\ ~ack[p] /\ in_bufid[p] = NoBufid
  BY <1>0, <1>1 DEF OwnerInv, AckInv, Inv, PortInv
<1>3. Offered(x)
  BY <1>0, <1>2 DEF Offered
<1>4. \A id \in Bufids : Offered(id)' <=> Offered(id) /\ id # x
  BY <1>0, <1>1, <1>2 DEF OwnerInv, OffersDistinct, Offered
<1>5. \A id \in Bufids : Received(id)' <=> Received(id) \/ id = x
  BY <1>0, <1>1, <1>2, NoBufidAssumption DEF Received
<1>6. UNCHANGED <<awr_state, outport_reg, bufid_send_cnt, o_pkt_bufid, bufid_addr,
                  wr_bufid_wr, wr_outport_num, rd_outport_num, outport_num, release>>
  BY <1>1 DEF awrVars
<1>7. \A id : Copies(id)' = Copies(id)
  BY <1>1, <1>6 DEF Copies, InService
<1>8. Copies(bufid_addr)' = Copies(bufid_addr)
  BY <1>1, <1>6 DEF Copies, InService
<1>9. \A id \in Bufids : Shared(id)' <=> Shared(id)
  BY <1>7 DEF Shared
<1>10. PlacesInv' /\ FifoDistinct' /\ MonitorInv'
  BY <1>1, <1>2, <1>3, <1>4, <1>5, <1>6, <1>9, PortFrame DEF OwnerInv, PlacesInv, OnePlace
<1>11. ~Received(x)
  BY <1>2, <1>3 DEF OwnerInv, PlacesInv, OnePlace
<1>12. ReceivedDistinct'
  BY <1>0, <1>1, <1>11 DEF OwnerInv, ReceivedDistinct, Received
<1>13. OffersDistinct' /\ CopyOnce' /\ AckInv'
  BY <1>0, <1>1, <1>6 DEF OwnerInv, OffersDistinct, CopyOnce, AckInv, InService
<1>14. WriterInv'
  BY <1>6, <1>8 DEF OwnerInv, WriterInv
<1>15. CountIsCopies'
  BY <1>6, <1>7 DEF OwnerInv, CountIsCopies, CountOf
<1> QED
  BY <1>7, <1>10, <1>12, <1>13, <1>14, <1>15 DEF Ownership, SameCopies

(* The id of the descriptor passes to the output ports, and their number to*)
(* the count RAM: nobody else writes the count of this id.                 *)
LEMMA ForwardDescriptorKeeps ==
    ASSUME OwnerInv, NEW p \in Wired, NEW map \in OutMaps, ForwardDescriptor(p, map)
    PROVE  /\ Ownership'
           /\ in_bufid[p] \in Bufids /\ Copies(in_bufid[p]) = {}
           /\ \A id \in Bufids : Copies(id)' =
                 IF id = in_bufid[p] THEN Outports(map) ELSE Copies(id)
<1> DEFINE x == in_bufid[p]
<1>0. /\ p \in Ports
      /\ in_bufid \in [Ports -> Bufids \cup {NoBufid}]
      /\ in_state \in [Ports -> {"idle", "parsing", "wait_des_ack"}]
      /\ queued \in [Ports -> SUBSET Bufids]
      /\ outport_num \in [Bufids -> 0 .. NumPorts]
      /\ bufid_addr \in Bufids /\ outport_reg \in Ports
      /\ Outports(map) \subseteq Ports /\ Outports(map) # {}
  BY WiredAssumption, OutMapsAssumption
     DEF OwnerInv, Inv, TypeOK, AwrTypeOK, Outports
<1>1. /\ in_state[p] = "wait_des_ack" /\ ~ack[p]
      /\ outport_num' = [outport_num EXCEPT ![x] = CopiesMade(map)]
      /\ queued' = [o \in Ports |-> IF o \in Outports(map) THEN queued[o] \cup {x}
                                    ELSE queued[o]]
      /\ in_bufid' = [in_bufid EXCEPT ![p] = NoBufid]
      /\ in_state' = [in_state EXCEPT ![p] = "idle"]
      /\ UNCHANGED <<awr_state, outport_reg, bufid_send_cnt, o_pkt_bufid, bufid_addr,
                     wr_bufid_wr, wr_outport_num, rd_outport_num, release>>
      /\ UNCHANGED <<fifo, iv_pkt_bufid, ard_state, rd_valid, offer, ack>>
      /\ UNCHANGED monitorVars
  BY DEF ForwardDescriptor, fifoVars, ardVars, monitorVars
<1>2. x \in Bufids
  BY <1>0, <1>1 DEF OwnerInv, Inv, PortInv
<1>3. Received(x)
  BY <1>0 DEF Received
<1>4. Copies(x) = {}
  BY <1>2, <1>3 DEF OwnerInv, PlacesInv, OnePlace, Shared
<1>5. \A id \in Bufids : Copies(id)' = IF id = x THEN Outports(map) ELSE Copies(id)
  <2> SUFFICES ASSUME NEW id \in Bufids
               PROVE  Copies(id)' = IF id = x THEN Outports(map) ELSE Copies(id)
    OBVIOUS
  <2>1. CASE id = x
    <3>1. \A o \in Ports : /\ x \notin queued[o] /\ release[o] # x
                           /\ ~(InService(o) /\ bufid_addr = x)
      BY <1>4 DEF Copies
    <3> QED
      BY <1>0, <1>1, <2>1, <3>1 DEF Copies, InService
  <2>2. CASE id # x
    BY <1>0, <1>1, <2>2 DEF Copies, InService
  <2> QED
    BY <2>1, <2>2
<1>6. \A id \in Bufids : Received(id)' <=> Received(id) /\ id # x
  BY <1>0, <1>1, <1>2, NoBufidAssumption DEF OwnerInv, ReceivedDistinct, Received
<1>7. \A id \in Bufids : Shared(id)' <=> Shared(id) \/ id = x
  BY <1>0, <1>5 DEF Shared
<1>8. \A id \in Bufids : Offered(id)' <=> Offered(id)
  BY <1>1 DEF Offered
<1>9. PlacesInv' /\ FifoDistinct' /\ MonitorInv'
  BY <1>1, <1>2, <1>3, <1>6, <1>7, <1>8, PortFrame DEF OwnerInv, PlacesInv, OnePlace
<1>10. ReceivedDistinct' /\ OffersDistinct' /\ AckInv'
  BY <1>0, <1>1 DEF OwnerInv, ReceivedDistinct, OffersDistinct, AckInv
<1>11. CopyOnce'
  <2> SUFFICES ASSUME NEW o \in Ports, NEW id \in Bufids
               PROVE  /\ id \in queued'[o] =>
                            release[o] # id /\ ~(InService(o) /\ bufid_addr = id)
                      /\ release[o] = id => ~(InService(o) /\ bufid_addr = id)
    BY <1>1 DEF CopyOnce, InService
  <2>1. CASE id = x
    BY <1>4, <2>1 DEF Copies
  <2>2. CASE id # x
    BY <1>0, <1>1, <2>2 DEF OwnerInv, CopyOnce
  <2> QED
    BY <2>1, <2>2
<1>12. Copies(bufid_addr) # {} => Copies(bufid_addr)' = Copies(bufid_addr)
  <2>1. ASSUME Copies(bufid_addr) # {} PROVE bufid_addr # x
    BY <1>4, <2>1
  <2>2. ASSUME bufid_addr # x PROVE Copies(bufid_addr)' = Copies(bufid_addr)
    BY <1>0, <1>1, <2>2 DEF Copies, InService
  <2> QED
    BY <2>1, <2>2
<1>13. awr_state \in {"wait_for_ram2", "rd_ram"} => Copies(bufid_addr) # {}
  BY <1>0 DEF Copies, InService
<1>14. WriterInv'
  BY <1>1, <1>12, <1>13 DEF OwnerInv, WriterInv
<1>15. CountIsCopies'
  <2> SUFFICES ASSUME NEW id \in Bufids, Copies(id)' # {}
               PROVE  CountOf(id)' = Cardinality(Copies(id)')
    BY DEF CountIsCopies
  <2>1. CASE id = x
    <3>1. ~(wr_bufid_wr /\ bufid_addr = x)
      BY <1>4 DEF OwnerInv, WriterInv
    <3>2. CountOf(id)' = CopiesMade(map)
      BY <1>0, <1>1, <1>2, <2>1, <3>1 DEF CountOf
    <3> QED
      BY <1>5, <2>1, <3>2 DEF CopiesMade
  <2>2. CASE id # x
    <3>1. CountOf(id)' = CountOf(id)
      BY <1>0, <1>1, <1>2, <2>2 DEF CountOf
    <3> QED
      BY <1>5, <2>2, <3>1 DEF OwnerInv, CountIsCopies
  <2> QED
    BY <2>1, <2>2
<1> QED
  BY <1>2, <1>4, <1>5, <1>9, <1>10, <1>11, <1>14, <1>15 DEF Ownership

(* A port that has sent its copy asks for the release: it still counts.    *)
LEMMA FinishPacketKeeps ==
    ASSUME OwnerInv, NEW p \in Wired, NEW id \in Bufids, FinishPacket(p, id)
    PROVE  Ownership' /\ SameCopies
<1>0. /\ p \in Ports
      /\ queued \in [Ports -> SUBSET Bufids]
      /\ release \in [Ports -> Bufids \cup {NoBufid}]
      /\ bufid_addr \in Bufids /\ outport_reg \in Ports
  BY WiredAssumption DEF OwnerInv, Inv, TypeOK, AwrTypeOK
<1>1. /\ id \in queued[p] /\ release[p] = NoBufid
      /\ queued' = [queued EXCEPT ![p] = queued[p] \ {id}]
      /\ release' = [release EXCEPT ![p] = id]
      /\ UNCHANGED <<awr_state, outport_reg, bufid_send_cnt, o_pkt_bufid, bufid_addr,
                     wr_bufid_wr, wr_outport_num, rd_outport_num, outport_num>>
      /\ UNCHANGED <<in_state, in_bufid>>
      /\ UNCHANGED <<fifo, iv_pkt_bufid, ard_state, rd_valid, offer, ack>>
      /\ UNCHANGED monitorVars
  BY DEF FinishPacket, fifoVars, ardVars, monitorVars
<1>2. \A y \in Bufids : Copies(y)' = Copies(y)
  BY <1>0, <1>1, NoBufidAssumption DEF Copies, InService
<1>3. Copies(bufid_addr)' = Copies(bufid_addr)
  BY <1>0, <1>1, NoBufidAssumption DEF Copies, InService
<1>4. \A y \in Bufids : /\ Shared(y)' <=> Shared(y)
                        /\ Offered(y)' <=> Offered(y)
                        /\ Received(y)' <=> Received(y)
  BY <1>1, <1>2 DEF Shared, Offered, Received
<1>5. PlacesInv' /\ FifoDistinct' /\ MonitorInv'
  BY <1>1, <1>4, PortFrame DEF OwnerInv, PlacesInv, OnePlace
<1>6. ReceivedDistinct' /\ OffersDistinct' /\ AckInv'
  BY <1>1 DEF OwnerInv, ReceivedDistinct, OffersDistinct, AckInv
<1>7. CopyOnce'
  BY <1>0, <1>1, NoBufidAssumption DEF OwnerInv, CopyOnce, InService
<1>8. WriterInv'
  BY <1>0, <1>1, <1>3, NoBufidAssumption DEF OwnerInv, WriterInv
<1>9. CountIsCopies'
  BY <1>1, <1>2 DEF OwnerInv, CountIsCopies, CountOf
<1> QED
  BY <1>2, <1>5, <1>6, <1>7, <1>8, <1>9 DEF Ownership, SameCopies

----------------------------------------------------------------------------
(* After reset every id is in the reset store.                             *)
LEMMA InitOwner == Init => OwnerInv
<1> SUFFICES ASSUME Init PROVE OwnerInv
  OBVIOUS
<1>0. NumPorts \in Nat /\ NumBufids \in Nat
  BY NumPortsAssumption, NumBufidsAssumption
<1>1. /\ fifo = <<>> /\ iv_pkt_bufid = NoBufid
      /\ ard_state = "initial_s" /\ rd_valid = {}
      /\ offer = [p \in Ports |-> NoBufid] /\ ack = [p \in Ports |-> FALSE]
      /\ awr_state = "initial_s" /\ bufid_send_cnt = NumPorts
      /\ o_pkt_bufid = NoBufid /\ wr_bufid_wr = FALSE
      /\ release = [p \in Ports |-> NoBufid]
      /\ in_bufid = [p \in Ports |-> NoBufid]
      /\ queued = [p \in Ports |-> {}]
      /\ bufid_state = {} /\ bufid_overflow_cnt = 0 /\ bufid_underflow_cnt = 0
  BY DEF Init, FifoInit, ArdInit, AwrInit, FirstStored
<1>2. \A id \in Bufids : Copies(id) = {}
  BY <1>1, NoBufidAssumption DEF Copies, InService
<1>3. \A id \in Bufids :
         /\ InReset(id)
         /\ ~InFifo(id) /\ ~InFetched(id) /\ ~Offered(id)
         /\ ~Received(id) /\ ~Shared(id) /\ ~Storing(id)
  BY <1>0, <1>1, <1>2, NoBufidAssumption
     DEF InReset, InFifo, InFetched, Fetched, Offered, Received, Shared, Storing, Bufids
<1>4. PlacesInv /\ FifoDistinct /\ OffersDistinct /\ ReceivedDistinct
  BY <1>1, <1>3 DEF PlacesInv, OnePlace, FifoDistinct, OffersDistinct, ReceivedDistinct
<1>5. CopyOnce /\ WriterInv /\ CountIsCopies /\ AckInv
  BY <1>1, <1>2 DEF CopyOnce, InService, WriterInv, CountIsCopies, AckInv
<1>6. MonitorInv
  BY <1>1, <1>3 DEF MonitorInv, MonitorsQuiet
<1> QED
  BY <1>4, <1>5, <1>6, InitInv DEF OwnerInv

(* A step that changes nothing.                                            *)
LEMMA StutterKeeps ==
    ASSUME OwnerInv, UNCHANGED vars
    PROVE  Ownership'
BY QuietStepKeeps DEF vars, fifoVars, portVars

(* Every step keeps every id in one place.                                 *)
LEMMA NextOwner == OwnerInv /\ [Next]_vars => OwnerInv'
<1> SUFFICES ASSUME OwnerInv, [Next]_vars PROVE OwnerInv'
  OBVIOUS
<1>1. Inv'
  BY NextInv DEF OwnerInv
<1>11. SUFFICES Ownership'
  BY <1>1 DEF Ownership, OwnerInv
<1>2. CASE AddressReadCycle
  <2>1. CASE InitialOffer
    BY <1>2, <2>1, InitialOfferKeeps
  <2>2. ASSUME NEW n \in Ports, PollChannel(n) PROVE Ownership'
    BY <1>2, <2>2, PollChannelKeeps
  <2>3. CASE WaitFifo
    BY <1>2, <2>3, WaitFifoKeeps
  <2> QED
    BY <1>2, <2>1, <2>2, <2>3 DEF AddressReadCycle, ReadCycle
<1>3. CASE AddressWriteCycle
  <2>1. CASE InitialStore
    BY <1>3, <2>1, InitialStoreKeeps
  <2>2. ASSUME NEW n \in Ports, PollRelease(n) PROVE Ownership'
    BY <1>3, <2>2, PollReleaseKeeps
  <2>3. CASE WaitRam1
    BY <1>3, <2>3, WaitRam1Keeps
  <2>4. CASE WaitRam2
    BY <1>3, <2>4, WaitRam2Keeps
  <2>5. CASE DecrementOrFree
    BY <1>3, <2>5, DecrementOrFreeKeeps
  <2> QED
    BY <1>3, <2>1, <2>2, <2>3, <2>4, <2>5 DEF AddressWriteCycle, WriteCycle
<1>4. CASE FifoSync
  BY <1>4, QuietStepKeeps DEF FifoSync, SyncPushPointer, portVars
<1>5. ASSUME NEW p \in Wired, PacketHead(p) PROVE Ownership'
  <2>1. \A q \in Ports : ack[q] => in_state'[q] = in_state[q]
    BY <1>5 DEF PacketHead, OwnerInv, AckInv, Inv, TypeOK
  <2> QED
    BY <1>5, <2>1, QuietStepKeeps DEF PacketHead, fifoVars
<1>6. ASSUME NEW p \in Wired, DropDescriptor(p) PROVE Ownership'
  <2>1. \A q \in Ports : ack[q] => in_state'[q] = in_state[q]
    BY <1>6 DEF DropDescriptor, OwnerInv, AckInv, Inv, TypeOK
  <2> QED
    BY <1>6, <2>1, QuietStepKeeps DEF DropDescriptor, fifoVars
<1>7. ASSUME NEW p \in Wired, TakeBufid(p) PROVE Ownership'
  BY <1>7, TakeBufidKeeps
<1>8. ASSUME NEW p \in Wired, NEW map \in OutMaps, ForwardDescriptor(p, map)
      PROVE  Ownership'
  BY <1>8, ForwardDescriptorKeeps
<1>9. ASSUME NEW p \in Wired, NEW id \in Bufids, FinishPacket(p, id)
      PROVE  Ownership'
  BY <1>9, FinishPacketKeeps
<1>10. CASE UNCHANGED vars
  BY <1>10, StutterKeeps
<1> QED
  BY <1>2, <1>3, <1>4, <1>5, <1>6, <1>7, <1>8, <1>9, <1>10 DEF Next

(* Therefore every id is in one place in every reachable state.            *)
LEMMA OwnerInvariance == Spec => []OwnerInv
BY InitOwner, NextOwner, PTL DEF Spec

----------------------------------------------------------------------------
(* The places are the owners of OneOwner.                                  *)
LEMMA PlacesAreOwners ==
    ASSUME OwnerInv, NEW id \in Bufids
    PROVE  \E o \in Owners(id) : Owners(id) = {o}
<1> DEFINE Reset    == {<<"reset", 0>> : x \in {y \in {id} : InReset(y)}}
           Queue    == {<<"fifo", i>> : i \in {j \in 1 .. Len(fifo) : fifo[j] = id}}
           Register == {<<"fetched", 0>> : x \in {y \in {id} : InFetched(y)}}
           Offer    == {<<"offered", p>> : p \in {q \in Ports : offer[q] = id /\ ~ack[q]}}
           Receive  == {<<"received", p>> : p \in {q \in Ports : in_bufid[q] = id}}
           Share    == {<<"copies", 0>> : x \in {y \in {id} : Shared(y)}}
           Store    == {<<"storing", 0>> : x \in {y \in {id} : Storing(y)}}
<1>1. Owners(id) = Reset \cup Queue \cup Register \cup Offer \cup Receive
                   \cup Share \cup Store
  BY DEF Owners, InReset, InFetched, Shared, Storing
<1>2. /\ Reset = IF InReset(id) THEN {<<"reset", 0>>} ELSE {}
      /\ Register = IF InFetched(id) THEN {<<"fetched", 0>>} ELSE {}
      /\ Share = IF Shared(id) THEN {<<"copies", 0>>} ELSE {}
      /\ Store = IF Storing(id) THEN {<<"storing", 0>>} ELSE {}
  OBVIOUS
<1>3. IF InFifo(id) THEN \E o : Queue = {o} ELSE Queue = {}
  <2>1. CASE InFifo(id)
    <3>1. PICK i \in 1 .. Len(fifo) : fifo[i] = id
      BY <2>1 DEF InFifo
    <3>2. \A j \in 1 .. Len(fifo) : fifo[j] = id => j = i
      BY <3>1 DEF OwnerInv, FifoDistinct
    <3>3. Queue = {<<"fifo", i>>}
      BY <3>1, <3>2
    <3> HIDE DEF Queue
    <3> QED
      BY <2>1, <3>3
  <2>2. CASE ~InFifo(id)
    BY <2>2 DEF InFifo
  <2> QED
    BY <2>1, <2>2
<1>4. IF Offered(id) THEN \E o : Offer = {o} ELSE Offer = {}
  <2>1. CASE Offered(id)
    <3>1. PICK i \in Ports : offer[i] = id /\ ~ack[i]
      BY <2>1 DEF Offered
    <3>2. \A j \in Ports : offer[j] = id /\ ~ack[j] => j = i
      BY <3>1, NoBufidAssumption DEF OwnerInv, OffersDistinct
    <3>3. Offer = {<<"offered", i>>}
      BY <3>1, <3>2
    <3> HIDE DEF Offer
    <3> QED
      BY <2>1, <3>3
  <2>2. CASE ~Offered(id)
    BY <2>2 DEF Offered
  <2> QED
    BY <2>1, <2>2
<1>5. IF Received(id) THEN \E o : Receive = {o} ELSE Receive = {}
  <2>1. CASE Received(id)
    <3>1. PICK i \in Ports : in_bufid[i] = id
      BY <2>1 DEF Received
    <3>2. \A j \in Ports : in_bufid[j] = id => j = i
      BY <3>1, NoBufidAssumption DEF OwnerInv, ReceivedDistinct
    <3>3. Receive = {<<"received", i>>}
      BY <3>1, <3>2
    <3> HIDE DEF Receive
    <3> QED
      BY <2>1, <3>3
  <2>2. CASE ~Received(id)
    BY <2>2 DEF Received
  <2> QED
    BY <2>1, <2>2
<1>6. OnePlace(id)
  BY DEF OwnerInv, PlacesInv
<1> HIDE DEF Reset, Queue, Register, Offer, Receive, Share, Store
<1> QED
  BY <1>1, <1>2, <1>3, <1>4, <1>5, <1>6 DEF OnePlace

(* No id is ever lost, none is given to two packets, and none is freed     *)
(* while a port still has to send it.                                      *)
THEOREM OneOwnerAlways == Spec => []OneOwner
<1>1. OwnerInv => OneOwner
  BY PlacesAreOwners DEF OneOwner
<1> QED
  BY <1>1, OwnerInvariance, PTL

(* The count RAM holds the number of copies of every packet in use, though *)
(* address_write updates it in three cycles and the forward table writes it*)
(* from the other port.                                                    *)
THEOREM CountsRight == Spec => []CountIsCopies
<1>1. OwnerInv => CountIsCopies
  BY DEF OwnerInv
<1> QED
  BY <1>1, OwnerInvariance, PTL

(* The built-in monitors never count an error.                             *)
THEOREM MonitorsStayQuiet == Spec => []MonitorsQuiet
<1>1. OwnerInv => MonitorsQuiet
  BY DEF OwnerInv, MonitorInv
<1> QED
  BY <1>1, OwnerInvariance, PTL

-----------------------------------------------------------------------------
(***************************************************************************)
(* Refinement.  The buffer implements the abstract pool: every step of the *)
(* hardware is a step of BufferPool or leaves the buffers' users alone.    *)
(***************************************************************************)

(* The pool's variables, as PktCentralizedBuffer maps them.                *)
Holder   == [p \in Ports |-> IF in_bufid[p] = NoBufid THEN {} ELSE {in_bufid[p]}]
CopiesOf == [id \in Bufids |-> Copies(id)]

UnusedIds == {id \in Bufids : ~Received(id) /\ ~Shared(id)}
FreeIsRest == FreeIds = UnusedIds

(* An id is free when no port received a packet into it and none has a     *)
(* copy of it.                                                             *)
LEMMA FreeIsUnused == OwnerInv => FreeIsRest
<1> SUFFICES ASSUME OwnerInv, NEW id \in Bufids
             PROVE  id \in FreeIds <=> ~Received(id) /\ ~Shared(id)
  BY DEF FreeIsRest, FreeIds, UnusedIds
<1>1. OnePlace(id)
  BY DEF OwnerInv, PlacesInv
<1>2. ASSUME ~Received(id), ~Shared(id)
      PROVE  id \in FreeIds
  <2>1. CASE InReset(id)
    <3>1. <<"reset", 0>> \in Owners(id)
      BY <2>1 DEF Owners, InReset
    <3> QED
      BY <3>1 DEF FreeIds
  <2>2. CASE InFifo(id)
    <3>1. PICK i \in 1 .. Len(fifo) : fifo[i] = id
      BY <2>2 DEF InFifo
    <3>2. <<"fifo", i>> \in Owners(id)
      BY <3>1 DEF Owners
    <3> QED
      BY <3>2 DEF FreeIds
  <2>3. CASE InFetched(id)
    <3>1. <<"fetched", 0>> \in Owners(id)
      BY <2>3 DEF Owners, InFetched
    <3> QED
      BY <3>1 DEF FreeIds
  <2>4. CASE Offered(id)
    <3>1. PICK p \in Ports : offer[p] = id /\ ~ack[p]
      BY <2>4 DEF Offered
    <3>2. <<"offered", p>> \in Owners(id)
      BY <3>1 DEF Owners
    <3> QED
      BY <3>2 DEF FreeIds
  <2>5. CASE Storing(id)
    <3>1. <<"storing", 0>> \in Owners(id)
      BY <2>5 DEF Owners, Storing
    <3> QED
      BY <3>1 DEF FreeIds
  <2> QED
    BY <1>1, <1>2, <2>1, <2>2, <2>3, <2>4, <2>5 DEF OnePlace
<1>3. ASSUME id \in FreeIds
      PROVE  ~Received(id) /\ ~Shared(id)
  <2>1. PICK o \in Owners(id) :
             o[1] \in {"reset", "fifo", "fetched", "offered", "storing"}
    BY <1>3 DEF FreeIds
  <2>2. InReset(id) \/ InFifo(id) \/ InFetched(id) \/ Offered(id) \/ Storing(id)
    BY <2>1 DEF Owners, InReset, InFifo, InFetched, Offered, Storing
  <2> QED
    BY <1>1, <2>2 DEF OnePlace
<1> QED
  BY <1>2, <1>3

(* The same after a step.                                                  *)
LEMMA FreeIsUnusedNext == OwnerInv' => FreeIsRest'
BY FreeIsUnused, PTL

(* A step that moves no copy and no received packet leaves the pool alone. *)
LEMMA PoolStutter ==
    ASSUME OwnerInv, OwnerInv', SameCopies, in_bufid' = in_bufid
    PROVE  UNCHANGED Pool!poolVars
<1>1. FreeIds = UnusedIds /\ FreeIds' = UnusedIds'
  BY FreeIsUnused, FreeIsUnusedNext DEF FreeIsRest
<1>2. \A id \in Bufids : /\ Received(id)' <=> Received(id)
                         /\ Shared(id)' <=> Shared(id)
  BY DEF Received, Shared, SameCopies
<1>3. FreeIds' = FreeIds
  BY <1>1, <1>2 DEF UnusedIds
<1>4. Holder' = Holder /\ CopiesOf' = CopiesOf
  BY DEF Holder, CopiesOf, SameCopies
<1> QED
  BY <1>3, <1>4 DEF Pool!poolVars, Holder, CopiesOf

(* rd_ram: the port in service releases its copy; the last one frees the   *)
(* id.                                                                     *)
LEMMA ReleaseStep ==
    ASSUME OwnerInv, OwnerInv', AddressWriteCycle, DecrementOrFree
    PROVE  Pool!Release(outport_reg, bufid_addr)
<1> DEFINE x == bufid_addr
           r == outport_reg
<1>0. x \in Bufids /\ r \in Ports
  BY DEF OwnerInv, Inv, TypeOK, AwrTypeOK
<1>1. /\ r \in Copies(x)
      /\ \A id \in Bufids :
            Copies(id)' = IF id = x THEN Copies(id) \ {r} ELSE Copies(id)
  BY DecrementOrFreeKeeps
<1>2. in_bufid' = in_bufid
  BY DEF AddressWriteCycle, portVars
<1>3. FreeIds = UnusedIds /\ FreeIds' = UnusedIds'
  BY FreeIsUnused, FreeIsUnusedNext DEF FreeIsRest
<1>4. \A id \in Bufids : Received(id)' <=> Received(id)
  BY <1>2 DEF Received
<1>5. Shared(x) /\ ~Received(x)
  BY <1>0, <1>1 DEF OwnerInv, PlacesInv, OnePlace, Shared
<1>6. \A id \in Bufids : Shared(id)' <=> Shared(id) /\ ~(id = x /\ Copies(x) = {r})
  BY <1>1 DEF Shared
<1>7. FreeIds' = IF Copies(x) = {r} THEN FreeIds \cup {x} ELSE FreeIds
  BY <1>0, <1>3, <1>4, <1>5, <1>6 DEF UnusedIds
<1>8. CopiesOf' = [CopiesOf EXCEPT ![x] = @ \ {r}]
  BY <1>0, <1>1 DEF CopiesOf
<1>9. Holder' = Holder
  BY <1>2 DEF Holder
<1>10. CopiesOf[x] = Copies(x)
  BY <1>0 DEF CopiesOf
<1> QED
  BY <1>1, <1>7, <1>8, <1>9, <1>10 DEF Pool!Release, Holder, CopiesOf

(* A descriptor takes the id offered to its port: the id was free.         *)
LEMMA TakeStep ==
    ASSUME OwnerInv, OwnerInv', NEW p \in Wired, TakeBufid(p),
           NEW x \in Bufids, x = offer[p]
    PROVE  Pool!Take(p, x)
<1>0. /\ p \in Ports
      /\ offer \in [Ports -> Bufids \cup {NoBufid}]
      /\ in_bufid \in [Ports -> Bufids \cup {NoBufid}]
  BY WiredAssumption DEF OwnerInv, Inv, TypeOK, ArdTypeOK
<1>1. /\ in_state[p] = "parsing" /\ x # NoBufid
      /\ in_bufid' = [in_bufid EXCEPT ![p] = x]
  BY DEF TakeBufid
<1>2. in_bufid[p] = NoBufid /\ ~ack[p]
  BY <1>0, <1>1 DEF OwnerInv, Inv, PortInv, AckInv
<1>3. x \in Bufids /\ Offered(x)
  BY <1>0, <1>1, <1>2 DEF Offered
<1>4. x \in UnusedIds
  BY <1>3 DEF UnusedIds, OwnerInv, PlacesInv, OnePlace
<1>5. SameCopies
  BY TakeBufidKeeps
<1>6. \A id \in Bufids : /\ Received(id)' <=> Received(id) \/ id = x
                         /\ Shared(id)' <=> Shared(id)
  BY <1>0, <1>1, <1>2, <1>5, NoBufidAssumption DEF Received, Shared, SameCopies
<1>7. FreeIds = UnusedIds /\ FreeIds' = UnusedIds'
  BY FreeIsUnused, FreeIsUnusedNext DEF FreeIsRest
<1>8. FreeIds' = FreeIds \ {x}
  BY <1>6, <1>7 DEF UnusedIds
<1>9. Holder' = [Holder EXCEPT ![p] = @ \cup {x}]
  BY <1>0, <1>1, <1>2 DEF Holder
<1>10. CopiesOf' = CopiesOf
  BY <1>5 DEF CopiesOf, SameCopies
<1> QED
  BY <1>3, <1>4, <1>7, <1>8, <1>9, <1>10 DEF Pool!Take, Holder, CopiesOf

(* The forward table hands the id to the output ports.                     *)
LEMMA ForwardStep ==
    ASSUME OwnerInv, OwnerInv', NEW p \in Wired, NEW map \in OutMaps,
           ForwardDescriptor(p, map)
    PROVE  in_bufid[p] \in Bufids /\ Pool!Forward(p, in_bufid[p], Outports(map))
<1> DEFINE x == in_bufid[p]
<1>0. /\ p \in Ports
      /\ in_bufid \in [Ports -> Bufids \cup {NoBufid}]
      /\ Outports(map) # {}
  BY WiredAssumption DEF OwnerInv, Inv, TypeOK, Outports
<1>1. in_bufid' = [in_bufid EXCEPT ![p] = NoBufid]
  BY DEF ForwardDescriptor
<1>2. /\ x \in Bufids /\ Copies(x) = {}
      /\ \A id \in Bufids :
            Copies(id)' = IF id = x THEN Outports(map) ELSE Copies(id)
  BY ForwardDescriptorKeeps
<1>3. x # NoBufid
  BY <1>2, NoBufidAssumption
<1>4. \A id \in Bufids : /\ Received(id)' <=> Received(id) /\ id # x
                         /\ Shared(id)' <=> Shared(id) \/ id = x
  <2>1. \A id \in Bufids : Received(id)' <=> Received(id) /\ id # x
    BY <1>0, <1>1, <1>2, NoBufidAssumption DEF OwnerInv, ReceivedDistinct, Received
  <2> QED
    BY <1>0, <1>2, <2>1 DEF Shared
<1>5. Received(x)
  BY <1>0 DEF Received
<1>6. FreeIds = UnusedIds /\ FreeIds' = UnusedIds'
  BY FreeIsUnused, FreeIsUnusedNext DEF FreeIsRest
<1>7. FreeIds' = FreeIds
  BY <1>4, <1>5, <1>6 DEF UnusedIds
<1>8. Holder' = [Holder EXCEPT ![p] = @ \ {x}] /\ x \in Holder[p]
  BY <1>0, <1>1, <1>3 DEF Holder
<1>9. CopiesOf' = [CopiesOf EXCEPT ![x] = Outports(map)]
  BY <1>2 DEF CopiesOf
<1> QED
  BY <1>2, <1>7, <1>8, <1>9 DEF Pool!Forward, Holder, CopiesOf

(* After reset every id is free.                                           *)
LEMMA InitMaps == Init => Pool!PoolInit
<1> SUFFICES ASSUME Init PROVE Pool!PoolInit
  OBVIOUS
<1>1. /\ in_bufid = [p \in Ports |-> NoBufid]
      /\ queued = [p \in Ports |-> {}]
      /\ release = [p \in Ports |-> NoBufid]
      /\ awr_state = "initial_s"
  BY DEF Init, AwrInit
<1>2. \A id \in Bufids : Copies(id) = {} /\ ~Received(id)
  BY <1>1, NoBufidAssumption DEF Copies, InService, Received
<1>3. FreeIds = Bufids
  BY <1>2, InitOwner, FreeIsUnused DEF FreeIsRest, UnusedIds, Shared
<1>4. Holder = [p \in Ports |-> {}]
  BY <1>1 DEF Holder
<1>5. CopiesOf = [id \in Bufids |-> {}]
  BY <1>2 DEF CopiesOf
<1> QED
  BY <1>3, <1>4, <1>5 DEF Pool!PoolInit, Holder, CopiesOf

(* Every step is a step of the pool or a stutter.                          *)
LEMMA StepMaps ==
    OwnerInv /\ OwnerInv' /\ [Next]_vars => [Pool!PoolNext]_(Pool!poolVars)
<1> SUFFICES ASSUME OwnerInv, OwnerInv', [Next]_vars
             PROVE  Pool!PoolNext \/ UNCHANGED Pool!poolVars
  OBVIOUS
<1>1. ASSUME SameCopies, in_bufid' = in_bufid PROVE UNCHANGED Pool!poolVars
  BY <1>1, PoolStutter
<1>2. CASE AddressReadCycle
  <2>1. SameCopies
    BY <1>2, ReaderFrame, InitialOfferKeeps, PollChannelKeeps, WaitFifoKeeps
       DEF AddressReadCycle, ReadCycle
  <2> QED
    BY <1>1, <1>2, <2>1 DEF AddressReadCycle, portVars
<1>3. CASE AddressWriteCycle
  <2>0. in_bufid' = in_bufid
    BY <1>3 DEF AddressWriteCycle, portVars
  <2>1. CASE DecrementOrFree
    <3>1. outport_reg \in Ports /\ bufid_addr \in Bufids
      BY DEF OwnerInv, Inv, TypeOK, AwrTypeOK
    <3> QED
      BY <1>3, <2>1, <3>1, ReleaseStep DEF Pool!PoolNext
  <2>2. CASE ~DecrementOrFree
    <3>1. SameCopies
      BY <1>3, <2>2, InitialStoreKeeps, PollReleaseKeeps, WaitRam1Keeps, WaitRam2Keeps
         DEF AddressWriteCycle, WriteCycle
    <3> QED
      BY <1>1, <2>0, <3>1
  <2> QED
    BY <2>1, <2>2
<1>4. CASE FifoSync
  BY <1>1, <1>4 DEF FifoSync, SameCopies, Copies, InService, awrVars, portVars
<1>5. ASSUME NEW p \in Wired, PacketHead(p) \/ DropDescriptor(p)
      PROVE  UNCHANGED Pool!poolVars
  BY <1>1, <1>5
     DEF PacketHead, DropDescriptor, SameCopies, Copies, InService, awrVars
<1>6. ASSUME NEW p \in Wired, TakeBufid(p) PROVE Pool!PoolNext
  <2>1. p \in Ports
    BY WiredAssumption
  <2>2. offer[p] \in Bufids
    BY <1>6, <2>1 DEF TakeBufid, OwnerInv, Inv, TypeOK, ArdTypeOK
  <2>3. PICK x \in Bufids : x = offer[p]
    BY <2>2
  <2>4. Pool!Take(p, x)
    BY <1>6, <2>3, TakeStep
  <2> QED
    BY <2>1, <2>4 DEF Pool!PoolNext
<1>7. ASSUME NEW p \in Wired, NEW map \in OutMaps, ForwardDescriptor(p, map)
      PROVE  Pool!PoolNext
  <2>1. map \subseteq Ports /\ HostPort \in Ports /\ p \in Ports
    BY WiredAssumption, OutMapsAssumption
  <2>2. Outports(map) \subseteq Ports /\ Outports(map) # {}
    BY <2>1 DEF Outports
  <2>3. in_bufid[p] \in Bufids /\ Pool!Forward(p, in_bufid[p], Outports(map))
    BY <1>7, ForwardStep
  <2>4. Outports(map) \in (SUBSET Ports) \ {{}}
    BY <2>2
  <2>5. \E outs \in (SUBSET Ports) \ {{}} : Pool!Forward(p, in_bufid[p], outs)
    BY <2>3, <2>4, Zenon
  <2> QED
    BY <2>1, <2>3, <2>5 DEF Pool!PoolNext
<1>8. ASSUME NEW p \in Wired, NEW id \in Bufids, FinishPacket(p, id)
      PROVE  UNCHANGED Pool!poolVars
  <2>1. SameCopies
    BY <1>8, FinishPacketKeeps
  <2> QED
    BY <1>1, <1>8, <2>1 DEF FinishPacket
<1>9. CASE UNCHANGED vars
  BY <1>1, <1>9
     DEF vars, fifoVars, awrVars, portVars, SameCopies, Copies, InService
<1> QED
  BY <1>2, <1>3, <1>4, <1>5, <1>6, <1>7, <1>8, <1>9 DEF Next

(* The hardware implements the pool: a buffer is taken only when free, and *)
(* freed exactly when its last copy is released.                           *)
THEOREM BufferRefinesPool == Spec => ImplementsPool
BY OwnerInvariance, InitMaps, StepMaps, PTL DEF Spec, ImplementsPool, Pool!PoolSpec
=============================================================================
