------------------------- MODULE NetworkOutputPort -------------------------
(***************************************************************************)
(* An output port (network_output_port.v): input queue, gates, scheduler,  *)
(* queue memory and the buffer ids' way through the transmitter.  All      *)
(* blocks share one clock, so a step of the port is one cycle of each of   *)
(* them: every block reads the registers of the cycle before.              *)
(***************************************************************************)
EXTENDS NetworkOutputSchedule, Sequences, FiniteSets

CONSTANTS Modes   \* the values i_qbv_or_qch may be configured to (TRUE: qch)
ASSUME ModesAssumption == Modes \subseteq BOOLEAN /\ Modes # {}

VARIABLES
    i_qbv_or_qch,     \* a configuration register
    tx_cache,         \* rv_cache_pkt_bufid, the next id to be sent
    tx_pkt,           \* the packet being read and sent, NoBufid in IDLE_S
    o_pkt_bufid_ack,  \* the transmitter took the id in its cache
    owned,            \* history: the ids that arrived and were not released
    slot_ids          \* history: the ids that arrived in this time slot

txVars == <<i_qbv_or_qch, tx_cache, tx_pkt, o_pkt_bufid_ack>>
portVars == <<niqVars, gateVars, oscVars, vqmVars, nqmVars, txVars, owned, slot_ids>>

TypeOK ==
    /\ NiqTypeOK
    /\ GateTypeOK
    /\ ScheduleTypeOK
    /\ i_qbv_or_qch \in Modes
    /\ tx_cache \in Bufids \cup {NoBufid}
    /\ tx_pkt \in Bufids \cup {NoBufid}
    /\ o_pkt_bufid_ack \in BOOLEAN
    /\ owned \in SUBSET PortIds
    /\ slot_ids \in SUBSET PortIds

Init ==
    /\ NiqInit
    /\ GateInit
    /\ ScheduleInit
    /\ i_qbv_or_qch \in Modes
    /\ tx_cache = NoBufid
    /\ tx_pkt = NoBufid
    /\ o_pkt_bufid_ack = FALSE
    /\ owned = {}
    /\ slot_ids = {}

(* pkt_read_control: an id that arrives is cached; in IDLE_S the cached id *)
(* is taken and acknowledged; sending it takes some cycles.                *)
CacheId ==
    tx_cache' = IF SentId # NoBufid THEN SentId
                ELSE IF o_pkt_bufid_ack THEN NoBufid
                ELSE tx_cache

(* Mutant: the id is taken without an acknowledgement.                     *)
StartPacketLateAck ==
    /\ tx_pkt = NoBufid
    /\ tx_pkt' = tx_cache
    /\ o_pkt_bufid_ack' = FALSE

StartPacket ==
    /\ tx_pkt = NoBufid
    /\ tx_pkt' = tx_cache
    /\ o_pkt_bufid_ack' = (tx_cache # NoBufid)

SendPacket ==
    /\ tx_pkt # NoBufid
    /\ o_pkt_bufid_ack' = FALSE
    /\ UNCHANGED tx_pkt

EndPacket ==
    /\ tx_pkt # NoBufid /\ ~o_pkt_bufid_ack
    /\ o_pkt_bufid_ack' = FALSE
    /\ tx_pkt' = NoBufid

NetworkTx == CacheId /\ (StartPacket \/ SendPacket \/ EndPacket)

(* An id is given to the port once at a time, and again only after it was  *)
(* released (PktCentralizedBuffer); no packet arrives in the first cycle.  *)
Arriving(id) == id = NoBufid \/ (id \in PortIds \ owned /\ in_gate # {})

History(id) ==
    /\ owned' = (owned \cup ({id} \ {NoBufid}))
                 \ (IF tx_pkt' = NoBufid THEN {tx_pkt} ELSE {})
    /\ slot_ids' = (IF in_gate' = in_gate THEN slot_ids \cup ({id} \ {NoBufid}) ELSE {})

Cycle(id, type) ==
    /\ Arriving(id)
    /\ InputQueueCycle(id, type, i_qbv_or_qch, in_gate, SentQueue)
    /\ GateCycle(i_qbv_or_qch)
    /\ OutputScheduleCycle(o_pkt_bufid_ack)
    /\ NetworkTx
    /\ i_qbv_or_qch' \in Modes
    /\ History(id)

Tick == \/ Cycle(NoBufid, 0)
        \/ \E id \in PortIds, type \in Queues : Cycle(id, type)

Spec == Init /\ [][Tick]_portVars

(* The clock runs, and a packet that is being sent ends some day.          *)
PacketEnds == Tick /\ EndPacket
FairSpec == Spec /\ WF_portVars(Tick) /\ WF_portVars(PacketEnds)

(***************************************************************************)
(* The lists in the queue memory.                                          *)
(***************************************************************************)
(* The memory and the heads, with the write that is under way.             *)
Word(a) == IF ov_queue_id # NoQueue /\ ov_queue_waddr = a THEN ov_queue_data
           ELSE queue_ram[a]

HeadNow(q) ==
    IF ov_queue_id = q /\ q \in rv_empty_delay THEN ov_queue_waddr
    ELSE IF ov_queue_id = q /\ ov_queue_waddr = rv_pkt_bufid_delay THEN ov_queue_data
    ELSE rv_queue_first_addr[q]

Linked(q) ==
    LET ids[i \in 1 .. rv_queue_count[q]] ==
            IF i = 1 THEN HeadNow(q) ELSE Word(ids[i - 1])
    IN  ids

Contents(q) == Linked(q) \o (IF rv_queue = q THEN <<rv_bufid_cache>> ELSE <<>>)

(* Every id that arrived and was not released is in exactly one queue, once*)
(* or with the transmitter: the pointers never lose or repeat a packet.    *)
InQueues == {e \in Queues \X (1 .. NumBufids) : e[2] <= Len(Contents(e[1]))}
IdAt(e)  == Contents(e[1])[e[2]]
WithTx   == {tx_cache, tx_pkt} \ {NoBufid}
Accounted ==
    /\ {IdAt(e) : e \in InQueues} \cup WithTx = owned
    /\ {IdAt(e) : e \in InQueues} \cap WithTx = {}
    /\ Cardinality({IdAt(e) : e \in InQueues}) = Cardinality(InQueues)

(* Cyclic queuing and forwarding: a time-sensitive packet is not sent in   *)
(* the slot in which it arrived, however late in a slot it was picked.     *)
CqfHold ==
    [][SentId # NoBufid /\ ov_schdule_queue \in {0, 1} => SentId \notin slot_ids]_portVars

(* The port implements first-in first-out queues.                          *)
ClassQ == INSTANCE ClassQueues WITH
    Ids <- PortIds, Classes <- Queues, None <- NoBufid,
    queue <- [q \in Queues |-> Contents(q)],
    handed <- IF o_pkt_bufid_ack THEN NoBufid ELSE tx_cache
ImplementsQueues == ClassQ!ClassSpec

(* The scheduler and the transmitter never wait for each other forever.    *)
HandshakeCompletes == ov_osc_state = "ACK_S" ~> ov_osc_state = "IDLE_S"

(* A packet in the queue of the highest priority is sent when its gate has *)
(* opened and does not close again, whatever arrives meanwhile.            *)
TopQueueServed ==
    \A id \in PortIds :
        (0 \in out_gate /\ \E i \in 1 .. Len(Contents(0)) : Contents(0)[i] = id)
            ~> tx_pkt = id
============================================================================
