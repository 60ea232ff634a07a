---------------------------- MODULE AddressWrite ---------------------------
(***************************************************************************)
(* address_write.v with the reference-count RAM (suhddpsram512x4_rq): a    *)
(* finite state machine that fills the free-id FIFO after reset and then   *)
(* polls the ports' release requests.  A released id goes back to the FIFO *)
(* when its last copy is released, until then its count is decremented.    *)
(* wr_bufid_ch0_s .. wr_bufid_ch8_s are one state with the channel in      *)
(* outport_reg.  One action is one clock cycle: the memories first see the *)
(* registered outputs of the cycle before.                                 *)
(***************************************************************************)
EXTENDS FreeBufidFifo

VARIABLES
    awr_state,       \* ov_address_write_state
    outport_reg,     \* the polled channel
    bufid_send_cnt,  \* next id to store after reset
    o_pkt_bufid,     \* id being stored while o_pkt_bufid_wr, else NoBufid
    bufid_addr,      \* address of the count RAM, port B
    wr_bufid_wr,     \* write strobe of the count RAM, port B
    wr_outport_num,  \* data written to the count RAM
    rd_outport_num,  \* data read from the count RAM
    outport_num,     \* the count RAM: copies of the packet not yet released
    release          \* iv_pkt_bufid_pN while i_pkt_bufid_wr_pN, else NoBufid

awrVars == <<awr_state, outport_reg, bufid_send_cnt, o_pkt_bufid, bufid_addr,
             wr_bufid_wr, wr_outport_num, rd_outport_num, outport_num, release>>

AwrTypeOK ==
    /\ awr_state \in {"initial_s", "wr_bufid_ch_s", "wait_for_ram1",
                      "wait_for_ram2", "rd_ram"}
    /\ outport_reg \in Ports
    /\ bufid_send_cnt \in NumPorts .. NumBufids - 1
    /\ o_pkt_bufid \in Bufids \cup {NoBufid}
    /\ bufid_addr \in Bufids
    /\ wr_bufid_wr \in BOOLEAN
    /\ wr_outport_num \in 0 .. NumPorts
    /\ rd_outport_num \in 0 .. NumPorts
    /\ outport_num \in [Bufids -> 0 .. NumPorts]
    /\ release \in [Ports -> Bufids \cup {NoBufid}]

(* The ids that go through the FIFO after reset: the ports get the others. *)
(* (Mutant of the last one: one id too many.)                              *)
FirstStored == NumPorts
LastStoredOffByOne == NumBufids
LastStored  == NumBufids - 1

AwrInit ==
    /\ awr_state = "initial_s"
    /\ outport_reg = 0
    /\ bufid_send_cnt = FirstStored
    /\ o_pkt_bufid = NoBufid
    /\ bufid_addr = 0
    /\ wr_bufid_wr = FALSE
    /\ wr_outport_num = 0
    /\ rd_outport_num = 0
    /\ outport_num = [id \in Bufids |-> 0]
    /\ release = [p \in Ports |-> NoBufid]

(* The FIFO's write port sees o_pkt_bufid_wr and o_pkt_bufid.              *)
FifoWritePort ==
    IF o_pkt_bufid = NoBufid THEN UNCHANGED fifoVars ELSE StoreBufid(o_pkt_bufid)

(* Port B of the count RAM sees wr_bufid_wr, bufid_addr, wr_outport_num.   *)
RamWritePort ==
    outport_num' = IF wr_bufid_wr
                     THEN [outport_num EXCEPT ![bufid_addr] = wr_outport_num]
                     ELSE outport_num

MemoryPorts == FifoWritePort /\ RamWritePort

(* initial_s: store one id per cycle.                                      *)
InitialStore ==
    /\ awr_state = "initial_s"
    /\ MemoryPorts
    /\ o_pkt_bufid' = bufid_send_cnt
    /\ IF bufid_send_cnt < LastStored
         THEN /\ bufid_send_cnt' = bufid_send_cnt + 1
              /\ UNCHANGED awr_state
         ELSE /\ awr_state' = "wr_bufid_ch_s"
              /\ UNCHANGED bufid_send_cnt
    /\ UNCHANGED <<outport_reg, bufid_addr, wr_bufid_wr, wr_outport_num,
                   rd_outport_num, release>>

(* wr_bufid_chN_s: channel n is polled; a request starts a count read.     *)
PollRelease(n) ==
    /\ awr_state = "wr_bufid_ch_s" /\ outport_reg = n
    /\ MemoryPorts
    /\ o_pkt_bufid' = NoBufid
    /\ wr_bufid_wr' = FALSE
    /\ IF release[n] # NoBufid
         THEN /\ bufid_addr' = release[n]
              /\ awr_state' = "wait_for_ram1"
              /\ UNCHANGED outport_reg
         ELSE /\ bufid_addr' = 0
              /\ outport_reg' = NextPort(n)
              /\ UNCHANGED awr_state
    /\ UNCHANGED <<bufid_send_cnt, wr_outport_num, rd_outport_num, release>>

(* wait_for_ram1: the RAM is read and the acknowledged port withdraws its  *)
(* request (the ack is visible in this cycle only).                        *)
WaitRam1 ==
    /\ awr_state = "wait_for_ram1"
    /\ MemoryPorts
    /\ rd_outport_num' = outport_num[bufid_addr]
    /\ release' = [release EXCEPT ![outport_reg] = NoBufid]
    /\ awr_state' = "wait_for_ram2"
    /\ UNCHANGED <<outport_reg, bufid_send_cnt, o_pkt_bufid, bufid_addr,
                   wr_bufid_wr, wr_outport_num>>

WaitRam2 ==
    /\ awr_state = "wait_for_ram2"
    /\ MemoryPorts
    /\ awr_state' = "rd_ram"
    /\ UNCHANGED <<outport_reg, bufid_send_cnt, o_pkt_bufid, bufid_addr,
                   wr_bufid_wr, wr_outport_num, rd_outport_num, release>>

(* Mutants: a packet with two copies is freed with the first release, and  *)
(* one with one copy is not freed with the last.                           *)
MoreCopiesEarlyFree(num) == num > 2
MoreCopiesNoFree(num) == num > 0

(* The count read says that other copies remain.                           *)
MoreCopies(num) == num > 1

(* rd_ram: decrement the count, or store the id of the last copy.          *)
DecrementOrFree ==
    /\ awr_state = "rd_ram"
    /\ MemoryPorts
    /\ IF MoreCopies(rd_outport_num)
         THEN /\ wr_outport_num' = rd_outport_num - 1
              /\ wr_bufid_wr' = TRUE
              /\ UNCHANGED o_pkt_bufid
         ELSE /\ wr_bufid_wr' = FALSE
              /\ o_pkt_bufid' = IF Full THEN NoBufid ELSE bufid_addr
              /\ UNCHANGED wr_outport_num
    /\ awr_state' = "wr_bufid_ch_s"
    /\ outport_reg' = NextPort(outport_reg)
    /\ UNCHANGED <<bufid_send_cnt, bufid_addr, rd_outport_num, release>>

WriteCycle ==
    \/ InitialStore
    \/ \E n \in Ports : PollRelease(n)
    \/ WaitRam1
    \/ WaitRam2
    \/ DecrementOrFree
============================================================================
