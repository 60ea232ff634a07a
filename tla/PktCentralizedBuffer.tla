----------------------- MODULE PktCentralizedBuffer ------------------------
(***************************************************************************)
(* The life of a buffer id (pkt_centralized_buffer.v and its neighbours).  *)
(* address_read offers ids to the input ports, a port acknowledges an id   *)
(* when a descriptor takes it (descriptor_send.v), the forward table sends *)
(* the descriptor to some output ports and writes their number into the    *)
(* count RAM (forward.v), every output port releases the id after its last *)
(* word is read (pkt_read_control.v), and address_write returns it to the  *)
(* free FIFO.  The two machines and the ports run concurrently: each       *)
(* advances by its own cycles, in any order.                               *)
(***************************************************************************)
EXTENDS AddressRead, AddressWrite, FiniteSets

CONSTANTS
    Wired,     \* the ports with engines (p4..p7 are left open in this build)
    HostPort,  \* p8
    OutMaps    \* the port bitmaps the forward table may return

ASSUME WiredAssumption   == Wired \subseteq Ports /\ HostPort \in Wired
ASSUME OutMapsAssumption == OutMaps \subseteq SUBSET Wired

VARIABLES
    in_state,            \* the input engine of a port
    in_bufid,            \* the id in the descriptor the port waits to hand over
    queued,              \* the ids an output port still has to send
    bufid_state,         \* the monitor's record of which ids are in the FIFO
    bufid_overflow_cnt,  \* ids stored while already in the FIFO
    bufid_underflow_cnt  \* ids fetched that were not in the FIFO

portVars    == <<in_state, in_bufid, queued>>
monitorVars == <<bufid_state, bufid_overflow_cnt, bufid_underflow_cnt>>
vars == <<fifoVars, ardVars, awrVars, portVars, monitorVars>>

TypeOK ==
    /\ FifoTypeOK
    /\ ArdTypeOK
    /\ AwrTypeOK
    /\ in_state \in [Ports -> {"idle", "parsing", "wait_des_ack"}]
    /\ in_bufid \in [Ports -> Bufids \cup {NoBufid}]
    /\ queued \in [Ports -> SUBSET Bufids]
    /\ bufid_state \in SUBSET Bufids
    /\ bufid_overflow_cnt \in Nat
    /\ bufid_underflow_cnt \in Nat

Init ==
    /\ FifoInit
    /\ ArdInit
    /\ AwrInit
    /\ in_state = [p \in Ports |-> "idle"]
    /\ in_bufid = [p \in Ports |-> NoBufid]
    /\ queued = [p \in Ports |-> {}]
    /\ bufid_state = {}
    /\ bufid_overflow_cnt = 0
    /\ bufid_underflow_cnt = 0

(* The monitor watches the FIFO's write strobe ...                         *)
MonitorStore ==
    /\ IF o_pkt_bufid = NoBufid
         THEN UNCHANGED <<bufid_state, bufid_overflow_cnt>>
         ELSE /\ bufid_state' = bufid_state \cup {o_pkt_bufid}
              /\ bufid_overflow_cnt' =
                   bufid_overflow_cnt + (IF o_pkt_bufid \in bufid_state THEN 1 ELSE 0)
    /\ UNCHANGED bufid_underflow_cnt

(* ... and its read strobe, which is high in wait_1s.                      *)
MonitorFetch ==
    /\ IF ard_state = "wait_1s"
         THEN /\ bufid_state' = bufid_state \ {iv_pkt_bufid'}
              /\ bufid_underflow_cnt' =
                   bufid_underflow_cnt + (IF iv_pkt_bufid' \in bufid_state THEN 0 ELSE 1)
         ELSE UNCHANGED <<bufid_state, bufid_underflow_cnt>>
    /\ UNCHANGED bufid_overflow_cnt

AddressReadCycle  == ReadCycle /\ MonitorFetch /\ UNCHANGED <<awrVars, portVars>>
AddressWriteCycle == WriteCycle /\ MonitorStore /\ UNCHANGED <<ardVars, portVars>>
FifoSync == SyncPushPointer /\ UNCHANGED <<ardVars, awrVars, portVars, monitorVars>>

(* The first byte of a packet: accepted if a buffer is free (rdusedw).     *)
PacketHead(p) ==
    /\ in_state[p] = "idle"
    /\ ~Empty
    /\ in_state' = [in_state EXCEPT ![p] = "parsing"]
    /\ UNCHANGED <<in_bufid, queued, fifoVars, ardVars, awrVars, monitorVars>>

(* The descriptor is complete: it takes the id offered to the port; without*)
(* an id it is dropped and the packet with it.                             *)
TakeBufid(p) ==
    /\ in_state[p] = "parsing" /\ offer[p] # NoBufid
    /\ ack' = [ack EXCEPT ![p] = TRUE]
    /\ in_bufid' = [in_bufid EXCEPT ![p] = offer[p]]
    /\ in_state' = [in_state EXCEPT ![p] = "wait_des_ack"]
    /\ UNCHANGED <<ard_state, ard_ch, offer, reg_bufid_ack, rd_valid, queued,
                   fifoVars, awrVars, monitorVars>>

DropDescriptor(p) ==
    /\ in_state[p] = "parsing" /\ offer[p] = NoBufid
    /\ in_state' = [in_state EXCEPT ![p] = "idle"]
    /\ UNCHANGED <<in_bufid, queued, fifoVars, ardVars, awrVars, monitorVars>>

(* An empty bitmap sends the packet to the host.                           *)
Outports(map) == IF map = {} THEN {HostPort} ELSE map

(* Mutant: a packet for the host (empty bitmap) counts no copy.            *)
CopiesMadeNoHost(map) == Cardinality(map)

(* ov_pkt_bufid_cnt: the number of copies written to the count RAM.        *)
CopiesMade(map) == Cardinality(Outports(map))

(* The forward table acknowledges the descriptor (not before the ack pulse *)
(* of the id is over: the descriptor is delayed by delay_cycle), passes it *)
(* to the output ports and writes their number through port A of the RAM.  *)
ForwardDescriptor(p, map) ==
    /\ in_state[p] = "wait_des_ack" /\ ~ack[p]
    /\ LET id == in_bufid[p] IN
         /\ outport_num' = [outport_num EXCEPT ![id] = CopiesMade(map)]
         /\ queued' = [o \in Ports |-> IF o \in Outports(map) THEN queued[o] \cup {id}
                                       ELSE queued[o]]
    /\ in_bufid' = [in_bufid EXCEPT ![p] = NoBufid]
    /\ in_state' = [in_state EXCEPT ![p] = "idle"]
    /\ UNCHANGED <<awr_state, outport_reg, bufid_send_cnt, o_pkt_bufid, bufid_addr,
                   wr_bufid_wr, wr_outport_num, rd_outport_num, release,
                   fifoVars, ardVars, monitorVars>>

(* The last word of a packet was read: the port requests the release of its*)
(* id.  address_write serves a request in at most 4 * NumPorts cycles and  *)
(* the next packet lasts longer, so the request register is free by then.  *)
FinishPacket(p, id) ==
    /\ id \in queued[p] /\ release[p] = NoBufid
    /\ queued' = [queued EXCEPT ![p] = @ \ {id}]
    /\ release' = [release EXCEPT ![p] = id]
    /\ UNCHANGED <<awr_state, outport_reg, bufid_send_cnt, o_pkt_bufid, bufid_addr,
                   wr_bufid_wr, wr_outport_num, rd_outport_num, outport_num,
                   in_state, in_bufid, fifoVars, ardVars, monitorVars>>

Next ==
    \/ AddressReadCycle
    \/ AddressWriteCycle
    \/ FifoSync
    \/ \E p \in Wired : \/ PacketHead(p)
                        \/ TakeBufid(p)
                        \/ DropDescriptor(p)
                        \/ \E map \in OutMaps : ForwardDescriptor(p, map)
                        \/ \E id \in Bufids : FinishPacket(p, id)

Spec == Init /\ [][Next]_vars

(* The clock never stops; nothing is asked of the ports.                   *)
Fairness ==
    /\ WF_vars(AddressReadCycle)
    /\ WF_vars(AddressWriteCycle)
    /\ WF_vars(FifoSync)

FairSpec == Spec /\ Fairness

(***************************************************************************)
(* Who has a buffer id.                                                    *)
(***************************************************************************)
InService(p) == awr_state \in {"wait_for_ram2", "rd_ram"} /\ outport_reg = p

(* The output ports whose copy of id address_write has not accounted for.  *)
Copies(id) == {p \in Ports : \/ id \in queued[p]
                             \/ release[p] = id
                             \/ InService(p) /\ bufid_addr = id}

Fetched == rd_valid # {} /\ ard_state # "wait_1s"

Owners(id) ==
    {<<"reset", 0>> : x \in {y \in {id} :
         \/ ard_state = "initial_s" /\ y < NumPorts
         \/ awr_state = "initial_s" /\ y >= bufid_send_cnt}}
    \cup {<<"fifo", i>> : i \in {j \in 1 .. Len(fifo) : fifo[j] = id}}
    \cup {<<"fetched", 0>> : x \in {y \in {id} : Fetched /\ iv_pkt_bufid = y}}
    \cup {<<"offered", p>> : p \in {q \in Ports : offer[q] = id /\ ~ack[q]}}
    \cup {<<"received", p>> : p \in {q \in Ports : in_bufid[q] = id}}
    \cup {<<"copies", 0>> : x \in {y \in {id} : Copies(y) # {}}}
    \cup {<<"storing", 0>> : x \in {y \in {id} : o_pkt_bufid = y}}

(* Every id is in exactly one place at any time: no id is ever lost, none  *)
(* is given to two packets, and none is freed while a port still sends it. *)
OneOwner == \A id \in Bufids : \E o \in Owners(id) : Owners(id) = {o}

(* The count RAM, with the write under way, holds the number of copies of  *)
(* every packet that is queued at output ports.                            *)
CountOf(id) == IF wr_bufid_wr /\ bufid_addr = id THEN wr_outport_num
               ELSE outport_num[id]
CountIsCopies ==
    \A id \in Bufids : Copies(id) # {} => CountOf(id) = Cardinality(Copies(id))

(* The built-in monitors of pkt_centralized_buffer.v never count an error: *)
(* no id is stored twice and none is fetched that was not stored.          *)
MonitorsQuiet == bufid_overflow_cnt = 0 /\ bufid_underflow_cnt = 0

(* An id offered to a port stays on its register until the port has        *)
(* acknowledged it: the port may sample it in any cycle.                   *)
OfferHeld ==
    [][\A p \in Ports : offer[p] # NoBufid /\ ~ack[p] => offer'[p] = offer[p]]_vars

(* A port never acknowledges twice for one packet, and never while its     *)
(* request for a new id is latched: no refill is lost or doubled.          *)
NoAckWhileWaiting == \A p \in Ports : ack[p] => offer[p] # NoBufid /\ ~reg_bufid_ack[p]

(* Once every port that had a copy of an id has asked for its release, the *)
(* id is back in the free FIFO some day, whatever other ids are requested  *)
(* meanwhile and however the requests for the same id follow each other.   *)
AllReleased(id) == Copies(id) # {} /\ \A p \in Ports : id \notin queued[p]
LastReleaseReturns ==
    \A id \in Bufids : AllReleased(id) ~> \E i \in 1 .. Len(fifo) : fifo[i] = id

(* A port that waits for an id gets one once the FIFO has an id for every  *)
(* port, however the other ports compete: the polling starves nobody.      *)
NoStarvation ==
    \A p \in Ports : (reg_bufid_ack[p] /\ visible >= NumPorts) ~> offer[p] # NoBufid

(***************************************************************************)
(* The buffer as its users see it.                                         *)
(***************************************************************************)
FreeIds == {id \in Bufids : \E o \in Owners(id) :
                o[1] \in {"reset", "fifo", "fetched", "offered", "storing"}}

Pool == INSTANCE BufferPool WITH
    Bufids <- Bufids,
    Ports  <- Ports,
    free   <- FreeIds,
    holder <- [p \in Ports |-> IF in_bufid[p] = NoBufid THEN {} ELSE {in_bufid[p]}],
    copies <- [id \in Bufids |-> Copies(id)]

(* The hardware implements the abstract pool: a buffer is taken only when  *)
(* free, and freed exactly when its last copy is released.                 *)
ImplementsPool == Pool!PoolSpec
============================================================================
