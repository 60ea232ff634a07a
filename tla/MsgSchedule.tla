---------------------------- MODULE MsgSchedule ----------------------------
(***************************************************************************)
(* The messages of TSNLight (FPGA build) between their buffers' allocation *)
(* and their release: the scheduler of lib/schedule.c polls the transmit   *)
(* queue of every service in turn and moves each message to the receive    *)
(* queue that schedule_table names; the service threads take messages,     *)
(* rewrite their type and source, write them to their transmit queue or    *)
(* free them.  Service threads never wait; the scheduler does, on a full   *)
(* receive queue.                                                          *)
(*                                                                         *)
(* A queue is a sequence: MsgQueue shows that the lock-free ring is one.   *)
(* Every service that allocates has a list of its own (BufPool); here the  *)
(* buffer returns to it when any service frees it.  A service that handles *)
(* a message makes two steps, the read and the rest.                       *)
(***************************************************************************)
EXTENDS Integers, FiniteSets, Sequences

CONSTANTS
    Buffer,     \* the buffers of the pool; a message is its buffer
    OwnBuffer,  \* OwnBuffer[s]: the buffers that service s allocates
    Packet,     \* the kinds of packet that arrive, of those in PacketType
    Roles,      \* the values that M_S_Flag may be configured to
    TxCap,      \* the capacity of a transmit queue
    RxCap,      \* the capacity of a receive queue
    RcCap,      \* the capacity of RC_queue of the map service
    None        \* NULL

ASSUME ScheduleAssumption ==
    /\ IsFiniteSet(Buffer) /\ None \notin Buffer
    /\ OwnBuffer \in [{"request", "nmac", "timer", "ptp"} -> SUBSET Buffer]
    /\ TxCap \in Nat \ {0} /\ RxCap \in Nat \ {0} /\ RcCap \in Nat \ {0}
    /\ Roles \subseteq {"master", "slave"}
    /\ Packet \subseteq {"nmac", "ts", "regroup", "arp", "rc", "be", "unmapped",
                         "sync", "delayReq", "delayResp"}

\* get_msg_type: what a packet becomes depends on its port and its first bytes.
\* The kinds are finer than the types where a service tells packets apart: ts,
\* a time-sensitive flow; rc and be, the flows of the map table; unmapped, not
\* in that table; the ptp packets by their ptp_type.
PacketType ==
    [ nmac |-> "nmac", ts |-> "regroup", regroup |-> "regroup", arp |-> "arp",
      rc |-> "forward", be |-> "forward", unmapped |-> "forward",
      sync |-> "ptp", delayReq |-> "ptp", delayResp |-> "ptp" ]

\* schedule_table, by source and type.  The entries of services that this build
\* does not start (0x1648, 0x1432, 0x0033, 0x0034) are never looked up.
Table ==
    { <<"nmac", "nmac", "response">>,     <<"request", "ptp", "ptp">>,
      <<"ptp", "ptp", "response">>,       <<"timer", "ptpTick", "ptp">>,
      <<"ptp", "nmac", "response">>,      <<"request", "regroup", "regroup">>,
      <<"regroup", "regroup", "response">>, <<"request", "forward", "map">>,
      <<"timer", "mapTick", "map">>,      <<"map", "forward", "response">>,
      <<"arp", "arp", "response">>,       <<"request", "arp", "arp">> }

\* The services with a transmit queue, by service id: the order of the polling.
TxOrder == <<"request", "ptp", "map", "nmac", "timer", "regroup", "arp">>
TxService == {TxOrder[i] : i \in 1 .. Len(TxOrder)}
RxService == {"response", "ptp", "map", "regroup", "arp"}
Thread == RxService \cup {"scheduler"}

VARIABLES
    m_s_flag,   \* which of hx_start_master_ptp and hx_start_slave_ptp runs
    free,       \* the buffers in the lists and the pool
    msg,        \* msg[b]: src_service_id and msg_type, and what the packet is
    txq,        \* txq_service_list
    rxq,        \* rxq_service_list
    rcq,        \* RC_queue
    hand,       \* hand[t]: the message that thread t works on
    polled,     \* the i of hx_msg_schedule, an index of TxOrder
    hit,        \* hit_flag, of this pass
    offsets,    \* the messages delay_resp_handler(_1) has yet to make
    ahead       \* ahead[b]: those of its kind received before b (history)

vars == <<m_s_flag, free, msg, txq, rxq, rcq, hand, polled, hit, offsets, ahead>>

Blank == [src |-> "none", type |-> "none", kind |-> "none"]

Elements(q) == {q[i] : i \in 1 .. Len(q)}

\* The messages that somebody still has.
InSystem ==
    (UNION {Elements(txq[s]) : s \in TxService}) \cup (UNION {Elements(rxq[s]) : s \in RxService})
        \cup Elements(rcq) \cup ({hand[t] : t \in Thread} \ {None})

Init ==
    /\ m_s_flag \in Roles
    /\ free = Buffer
    /\ msg = [b \in Buffer |-> Blank]
    /\ txq = [s \in TxService |-> <<>>]
    /\ rxq = [s \in RxService |-> <<>>]
    /\ rcq = <<>>
    /\ hand = [t \in Thread |-> None]
    /\ polled = 1
    /\ hit = FALSE
    /\ offsets = 0
    /\ ahead = [b \in Buffer |-> {}]

-----------------------------------------------------------------------------
(* Allocating, freeing, writing *)

\* b leaves the system: the history forgets it.
Forgotten(b) ==
    /\ msg' = [msg EXCEPT ![b] = Blank]
    /\ ahead' = [c \in Buffer |-> IF c = b THEN {} ELSE ahead[c] \ {b}]

Release(b) == free' = free \cup {b} /\ Forgotten(b)

\* A new message of s in buffer c of its list, written to its transmit queue.
\* (With a full queue the buffer is freed at once, and nothing has changed.)
WriteNew(s, c, type, kind) ==
    /\ c \in free \cap OwnBuffer[s]
    /\ Len(txq[s]) < TxCap
    /\ free' = free \ {c}
    /\ msg' = [msg EXCEPT ![c] = [src |-> s, type |-> type, kind |-> kind]]
    /\ ahead' = [ahead EXCEPT ![c] = {d \in InSystem : msg[d].kind = kind}]
    /\ txq' = [txq EXCEPT ![s] = Append(@, c)]

\* The message in hand, rewritten by s; when the queue is full it is freed.
WriteOrFree(s, type) ==
    LET b == hand[s] IN
    /\ hand' = [hand EXCEPT ![s] = None]
    /\ \/ /\ Len(txq[s]) < TxCap
          /\ txq' = [txq EXCEPT ![s] = Append(@, b)]
          /\ msg' = [msg EXCEPT ![b].src = s, ![b].type = type]
          /\ UNCHANGED <<free, ahead>>
       \/ /\ Len(txq[s]) = TxCap
          /\ Release(b)
          /\ UNCHANGED txq

FreeInHand(s) ==
    /\ Release(hand[s])
    /\ hand' = [hand EXCEPT ![s] = None]
    /\ UNCHANGED txq

-----------------------------------------------------------------------------
(* hx_msg_schedule *)

\* (Mutant: hit_flag is kept from pass to pass.)
AdvanceKept(flag) ==
    /\ polled' = (polled % Len(TxOrder)) + 1
    /\ hit' = flag
\* The next service, or the next pass, which begins with hit_flag = 0.
Advance(flag) ==
    /\ polled' = (polled % Len(TxOrder)) + 1
    /\ hit' = (flag /\ polled < Len(TxOrder))

Poll ==
    LET s == TxOrder[polled] IN
    /\ hand["scheduler"] = None
    /\ \/ /\ txq[s] = <<>>
          /\ Advance(hit)
          /\ UNCHANGED <<txq, hand>>
       \/ /\ txq[s] # <<>>
          /\ hand' = [hand EXCEPT !["scheduler"] = Head(txq[s])]
          /\ txq' = [txq EXCEPT ![s] = Tail(@)]
          /\ UNCHANGED <<polled, hit>>
    /\ UNCHANGED <<free, msg, rxq, rcq, offsets, ahead>>

Destination(b) == {e[3] : e \in {x \in Table : x[1] = msg[b].src /\ x[2] = msg[b].type}}

\* The message of a known key waits for room in the destination's queue; one
\* of an unknown key is freed, if no message before it in this pass was routed.
Dispatch ==
    LET b == hand["scheduler"] IN
    /\ b # None
    /\ hand' = [hand EXCEPT !["scheduler"] = None]
    /\ \/ \E d \in Destination(b) :
          /\ Len(rxq[d]) < RxCap
          /\ rxq' = [rxq EXCEPT ![d] = Append(@, b)]
          /\ Advance(TRUE)
          /\ UNCHANGED <<free, msg, ahead>>
       \/ /\ Destination(b) = {}
          /\ IF hit THEN Forgotten(b) /\ UNCHANGED free ELSE Release(b)
          /\ Advance(hit)
          /\ UNCHANGED rxq
    /\ UNCHANGED <<txq, rcq, offsets>>

-----------------------------------------------------------------------------
(* The threads that make messages *)

\* ethernet_protocol_callback; without a buffer the packet is dropped.
Receive ==
    /\ \E b \in Buffer, p \in Packet : WriteNew("request", b, PacketType[p], p)
    /\ UNCHANGED <<rxq, rcq, hand, polled, hit, offsets>>

\* One of the configuration messages of local_mange.c.
Configure ==
    /\ \E b \in Buffer : WriteNew("nmac", b, "nmac", "config")
    /\ UNCHANGED <<rxq, rcq, hand, polled, hit, offsets>>

\* timer_callback: the map service always has a timer, PTP only as master.
TimerOut ==
    /\ \E b \in Buffer, type \in {"mapTick"} \cup (IF m_s_flag = "master" THEN {"ptpTick"} ELSE {}) :
           WriteNew("timer", b, type, type)
    /\ UNCHANGED <<rxq, rcq, hand, polled, hit, offsets>>

-----------------------------------------------------------------------------
(* The threads that handle messages *)

ReadRx(s) ==
    /\ hand[s] = None
    /\ s = "ptp" => offsets = 0
    /\ rxq[s] # <<>>
    /\ hand' = [hand EXCEPT ![s] = Head(rxq[s])]
    /\ rxq' = [rxq EXCEPT ![s] = Tail(@)]
    /\ UNCHANGED <<free, msg, txq, rcq, polled, hit, offsets, ahead>>

\* Thread s has a message, and only its own queues change.
Handles(s) == hand[s] # None /\ UNCHANGED <<rxq, polled, hit>>

\* data_response_thread: hx_data_send, then hx_free_buf.
Send == Handles("response") /\ FreeInHand("response") /\ UNCHANGED <<rcq, offsets>>

\* hx_start_regroup.  (Mutant: without the continue after the free.)
RegroupTwice ==
    /\ Handles("regroup") /\ UNCHANGED <<rcq, offsets>>
    /\ hand' = [hand EXCEPT !["regroup"] = None]
    /\ txq' = [txq EXCEPT !["regroup"] = Append(@, hand["regroup"])]
    /\ free' = IF msg[hand["regroup"]].kind = "ts" THEN free \cup {hand["regroup"]} ELSE free
    /\ msg' = [msg EXCEPT ![hand["regroup"]].src = "regroup"]
    /\ UNCHANGED ahead
Regroup ==
    /\ Handles("regroup") /\ UNCHANGED <<rcq, offsets>>
    /\ IF msg[hand["regroup"]].kind = "ts"
       THEN FreeInHand("regroup")
       ELSE WriteOrFree("regroup", "regroup")

\* start_arp_reply: a reply, or nothing for what is no known request.  (Mutant:
\* the source stays the data request service.)
ArpReplyUnsigned ==
    /\ Handles("arp") /\ UNCHANGED <<rcq, offsets, msg, free, ahead>>
    /\ Len(txq["arp"]) < TxCap
    /\ txq' = [txq EXCEPT !["arp"] = Append(@, hand["arp"])]
    /\ hand' = [hand EXCEPT !["arp"] = None]
ArpReply ==
    /\ Handles("arp") /\ UNCHANGED <<rcq, offsets>>
    /\ FreeInHand("arp") \/ WriteOrFree("arp", "arp")

\* RC_handler: the tick is freed and the first message of the RC queue is the
\* next to be written.
RcHandler ==
    LET b == hand["map"] IN
    /\ Handles("map") /\ UNCHANGED <<txq, offsets>>
    /\ msg[b].type = "mapTick"
    /\ Release(b)
    /\ hand' = [hand EXCEPT !["map"] = IF rcq = <<>> THEN None ELSE Head(rcq)]
    /\ rcq' = IF rcq = <<>> THEN rcq ELSE Tail(rcq)

\* map_handler for a reserved-bandwidth flow: the message waits in the RC queue
\* for a tick, and when that is full nobody keeps it (the free is commented out).
RcRoom == Len(rcq) < RcCap
\* (Mutant: when the queue is full the message overtakes it.)
ToRcQueueOvertake ==
    LET b == hand["map"] IN
    /\ Handles("map") /\ UNCHANGED offsets
    /\ msg[b].type = "forward" /\ msg[b].src = "request" /\ msg[b].kind = "rc"
    /\ IF RcRoom
       THEN /\ rcq' = Append(rcq, b)
            /\ msg' = [msg EXCEPT ![b].src = "map"]
            /\ hand' = [hand EXCEPT !["map"] = None]
            /\ UNCHANGED <<free, ahead, txq>>
       ELSE WriteOrFree("map", "forward") /\ UNCHANGED rcq
\* (Mutant: without the test for a full queue.)
ToRcQueueUnbounded ==
    LET b == hand["map"] IN
    /\ Handles("map") /\ UNCHANGED <<txq, free, offsets, ahead>>
    /\ msg[b].type = "forward" /\ msg[b].src = "request" /\ msg[b].kind = "rc"
    /\ hand' = [hand EXCEPT !["map"] = None]
    /\ rcq' = Append(rcq, b)
    /\ msg' = [msg EXCEPT ![b].src = "map"]
ToRcQueue ==
    LET b == hand["map"] IN
    /\ Handles("map") /\ UNCHANGED <<txq, free, offsets>>
    /\ msg[b].type = "forward" /\ msg[b].src = "request" /\ msg[b].kind = "rc"
    /\ hand' = [hand EXCEPT !["map"] = None]
    /\ \/ /\ RcRoom
          /\ rcq' = Append(rcq, b)
          /\ msg' = [msg EXCEPT ![b].src = "map"]
          /\ UNCHANGED ahead
       \/ ~RcRoom /\ Forgotten(b) /\ UNCHANGED rcq

\* The other messages: one out of the RC queue, or of a flow without reservation.
MapOther ==
    LET b == hand["map"] IN
    /\ Handles("map") /\ UNCHANGED <<rcq, offsets>>
    /\ msg[b].type = "forward" /\ (msg[b].src = "map" \/ msg[b].kind # "rc")
    /\ IF msg[b].kind = "unmapped"
       THEN FreeInHand("map")
       ELSE WriteOrFree("map", "forward")

\* sync_handler_master frees the tick before it allocates the sync message.
PtpMaster ==
    LET b == hand["ptp"] IN
    /\ m_s_flag = "master" /\ Handles("ptp") /\ UNCHANGED <<rcq, offsets>>
    /\ \/ /\ msg[b].type = "ptpTick"
          /\ hand' = [hand EXCEPT !["ptp"] = None]
          /\ \/ /\ Len(txq["ptp"]) < TxCap
                /\ txq' = [txq EXCEPT !["ptp"] = Append(@, b)]
                /\ msg' = [msg EXCEPT ![b] = [src |-> "ptp", type |-> "ptp", kind |-> "ptpTick"]]
                /\ UNCHANGED <<free, ahead>>
             \/ Len(txq["ptp"]) = TxCap /\ Release(b) /\ UNCHANGED txq
       \/ msg[b].type = "ptp" /\ WriteOrFree("ptp", "ptp")

\* hx_start_slave_ptp.  An answer to delay_req is freed and makes one, two or
\* four messages for the switch, depending on recoup_flag and offset_seq.
\* (Mutant: a sync message, which becomes the delay_req, is freed as well.)
PtpSlaveFreed ==
    LET b == hand["ptp"] IN
    /\ m_s_flag = "slave" /\ Handles("ptp") /\ UNCHANGED <<rcq, ahead>>
    /\ hand' = [hand EXCEPT !["ptp"] = None]
    /\ free' = free \cup {b}
    /\ \/ msg[b].kind = "sync" /\ Len(txq["ptp"]) < TxCap /\ UNCHANGED offsets
          /\ txq' = [txq EXCEPT !["ptp"] = Append(@, b)]
          /\ msg' = [msg EXCEPT ![b].src = "ptp"]
       \/ msg[b].kind # "sync" /\ offsets' \in {0, 1, 2, 4} /\ UNCHANGED <<txq, msg>>
PtpSlave ==
    LET b == hand["ptp"] IN
    /\ m_s_flag = "slave" /\ Handles("ptp") /\ UNCHANGED rcq
    /\ msg[b].type = "ptp"
    /\ \/ msg[b].kind = "sync" /\ WriteOrFree("ptp", "ptp") /\ UNCHANGED offsets
       \/ msg[b].kind = "delayResp" /\ FreeInHand("ptp") /\ offsets' \in {1, 2, 4}
       \/ msg[b].kind = "delayReq" /\ FreeInHand("ptp") /\ UNCHANGED offsets

\* build_offset_pkt, build_offset_period; a full queue frees what was built.
MakeOffset ==
    /\ offsets > 0
    /\ offsets' = offsets - 1
    /\ \/ \E c \in Buffer : WriteNew("ptp", c, "nmac", "offset")
       \/ Len(txq["ptp"]) = TxCap /\ UNCHANGED <<free, msg, txq, ahead>>
    /\ UNCHANGED <<rxq, rcq, hand, polled, hit>>

-----------------------------------------------------------------------------
Scheduler == Poll \/ Dispatch
Map == ReadRx("map") \/ RcHandler \/ ToRcQueue \/ MapOther
Ptp == ReadRx("ptp") \/ PtpMaster \/ PtpSlave \/ MakeOffset
DataResponse == ReadRx("response") \/ Send
RegroupService == ReadRx("regroup") \/ Regroup
ArpService == ReadRx("arp") \/ ArpReply

Next ==
    /\ \/ Scheduler \/ Receive \/ Configure \/ TimerOut
       \/ Map \/ Ptp \/ DataResponse \/ RegroupService \/ ArpService
    /\ UNCHANGED m_s_flag

Spec == Init /\ [][Next]_vars

\* Every thread runs, and SIGALRM keeps coming.
FairSpec ==
    /\ Spec
    /\ WF_vars(Scheduler /\ UNCHANGED m_s_flag)
    /\ WF_vars(TimerOut /\ UNCHANGED m_s_flag)
    /\ WF_vars(Map /\ UNCHANGED m_s_flag)
    /\ WF_vars(Ptp /\ UNCHANGED m_s_flag)
    /\ WF_vars(DataResponse /\ UNCHANGED m_s_flag)
    /\ WF_vars(RegroupService /\ UNCHANGED m_s_flag)
    /\ WF_vars(ArpService /\ UNCHANGED m_s_flag)

-----------------------------------------------------------------------------
(* Properties *)

Message == [src : TxService \cup {"none"}, kind : Packet \cup
                {"none", "config", "offset", "mapTick", "ptpTick"},
            type : {"none", "nmac", "regroup", "arp", "forward", "ptp", "mapTick", "ptpTick"}]

BoundedQueue(q, cap) == Elements(q) \subseteq Buffer /\ Len(q) <= cap

\* The types of the variables, with the capacities of the queues.
TypeOK ==
    /\ m_s_flag \in Roles
    /\ free \subseteq Buffer
    /\ msg \in [Buffer -> Message]
    /\ \A s \in TxService : BoundedQueue(txq[s], TxCap)
    /\ \A s \in RxService : BoundedQueue(rxq[s], RxCap)
    /\ BoundedQueue(rcq, RcCap)
    /\ hand \in [Thread -> Buffer \cup {None}]
    /\ polled \in 1 .. Len(TxOrder) /\ hit \in BOOLEAN /\ offsets \in 0 .. 4
    /\ ahead \in [Buffer -> SUBSET Buffer]

Copies(q, b) == Cardinality({i \in 1 .. Len(q) : q[i] = b})
Holders(b) ==
    Cardinality({s \in TxService : Copies(txq[s], b) > 0})
        + Cardinality({s \in RxService : Copies(rxq[s], b) > 0})
        + Copies(rcq, b) + Cardinality({t \in Thread : hand[t] = b})

\* However the threads interleave, a message is in one place: no two services
\* work on it, no queue has it twice, and it is not free for a new packet.
HandledOnce ==
    \A b \in Buffer :
        /\ Holders(b) <= (IF b \in free THEN 0 ELSE 1)
        /\ \A s \in TxService : Copies(txq[s], b) <= 1
        /\ \A s \in RxService : Copies(rxq[s], b) <= 1

\* No step loses a buffer, but for the one whose free is commented out in
\* map_handler: a reserved-bandwidth message that finds RC_queue full.
NothingForgotten ==
    [][LET b == hand["map"]
           unkept == {c \in {b} : b # None /\ msg[b].kind = "rc" /\ msg[b].src = "request" /\ ~RcRoom}
       IN  free \cup InSystem \subseteq (free \cup InSystem)' \cup unkept]_vars

\* Messages of one flow are sent in the order they came in, whichever queues and
\* services they passed and whichever of them were dropped on the way.
FlowOrder ==
    [][\A b \in Buffer : (hand["response"] = b /\ hand'["response"] = None) => ahead[b] \cap InSystem = {}]_vars

\* The blocking write of the scheduler stops nobody for ever: every message is
\* sent or dropped, and the reserved-bandwidth ones get their tick.
Returns == \A b \in Buffer : b \in InSystem ~> b \notin InSystem
=============================================================================
