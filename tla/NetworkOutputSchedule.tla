------------------------ MODULE NetworkOutputSchedule ----------------------
(***************************************************************************)
(* output_schedule_control.v, virtual_queue_manage.v and network_queue_    *)
(* manage.v: the queue memory of an output port from the reading side.  The*)
(* scheduler picks the first open queue with packets, the id at its head is*)
(* sent, and the word at that id, read in three cycles, is the new head.   *)
(* Writes to that word while it is read are bypassed at every stage.       *)
(***************************************************************************)
EXTENDS QueueGateControl

VARIABLES
    ov_osc_state,
    ov_schdule_queue,     \* the queue picked last
    o_schdule_queue_wr,   \* it was picked in the cycle before
    rv_queue_first_addr,  \* the id at the head of each queue
    ov_queue_raddr,       \* the id at the head of the picked queue
    o_queue_rd,
    rv_empty_delay,       \* the queues that were empty in the cycle before
    rv_pkt_bufid_delay,   \* the id sent in the cycle before, else NoBufid
    queue_ram,            \* the queue memory
    r_ram_rdata,          \* its output register
    nqm_state,
    ov_queue_rdata,       \* the word read
    o_queue_rdata_valid

oscVars == <<ov_osc_state, ov_schdule_queue, o_schdule_queue_wr>>
vqmVars == <<rv_queue_first_addr, ov_queue_raddr, o_queue_rd, rv_empty_delay,
             rv_pkt_bufid_delay>>
nqmVars == <<queue_ram, r_ram_rdata, nqm_state, ov_queue_rdata, o_queue_rdata_valid>>

ScheduleTypeOK ==
    /\ ov_osc_state \in {"IDLE_S", "ACK_S"}
    /\ ov_schdule_queue \in Queues
    /\ o_schdule_queue_wr \in BOOLEAN
    /\ rv_queue_first_addr \in [Queues -> Bufids]
    /\ ov_queue_raddr \in Bufids
    /\ o_queue_rd \in BOOLEAN
    /\ rv_empty_delay \in SUBSET Queues
    /\ rv_pkt_bufid_delay \in Bufids \cup {NoBufid}
    /\ queue_ram \in [Bufids -> Bufids]
    /\ r_ram_rdata \in Bufids
    /\ nqm_state \in {"IDLE_S", "READ_S", "WAIT0_S", "WAIT1_S"}
    /\ ov_queue_rdata \in Bufids
    /\ o_queue_rdata_valid \in BOOLEAN

(* The delayed empty flags have no reset; the counts they follow have.     *)
ScheduleInit ==
    /\ ov_osc_state = "IDLE_S"
    /\ ov_schdule_queue = 0
    /\ o_schdule_queue_wr = FALSE
    /\ rv_queue_first_addr = [q \in Queues |-> 0]
    /\ ov_queue_raddr = 0
    /\ o_queue_rd = FALSE
    /\ rv_empty_delay = Queues
    /\ rv_pkt_bufid_delay = NoBufid
    /\ queue_ram = [id \in Bufids |-> 0]
    /\ r_ram_rdata = 0
    /\ nqm_state = "IDLE_S"
    /\ ov_queue_rdata = 0
    /\ o_queue_rdata_valid = FALSE

(* output_schedule_control: strict priority among the open queues.         *)
(* (Mutant: the priorities are reversed.)                                  *)
Ready(q) == q \in out_gate /\ ~QueueEmpty(q)
PickedReversed(q) == Ready(q) /\ \A r \in q + 1 .. NumQueues - 1 : ~Ready(r)
Picked(q) == Ready(q) /\ \A r \in 0 .. q - 1 : ~Ready(r)

PickQueue(ack) ==
    \/ \E q \in Queues :
          /\ ov_osc_state = "IDLE_S" /\ Picked(q)
          /\ ov_schdule_queue' = q
          /\ o_schdule_queue_wr' = TRUE
          /\ ov_osc_state' = "ACK_S"
    \/ /\ ov_osc_state = "IDLE_S" /\ \A q \in Queues : ~Ready(q)
       /\ o_schdule_queue_wr' = FALSE
       /\ UNCHANGED <<ov_osc_state, ov_schdule_queue>>
    \/ /\ ov_osc_state = "ACK_S"
       /\ o_schdule_queue_wr' = FALSE
       /\ ov_osc_state' = IF ack THEN "IDLE_S" ELSE "ACK_S"
       /\ UNCHANGED ov_schdule_queue

(* network_queue_manage: the word is read in READ_S and valid in WAIT1_S,  *)
(* unless a write to the same address overtakes the read.                  *)
WriteHit == ov_queue_id # NoQueue /\ ov_queue_waddr = ov_queue_raddr

QueueMemory ==
    /\ queue_ram' = IF ov_queue_id = NoQueue THEN queue_ram
                    ELSE [queue_ram EXCEPT ![ov_queue_waddr] = ov_queue_data]
    /\ r_ram_rdata' = IF nqm_state = "READ_S" THEN queue_ram[ov_queue_raddr]
                      ELSE r_ram_rdata

ReadWord ==
    \/ /\ nqm_state = "IDLE_S"
       /\ o_queue_rdata_valid' = FALSE
       /\ nqm_state' = IF o_queue_rd THEN "READ_S" ELSE "IDLE_S"
       /\ UNCHANGED ov_queue_rdata
    \/ /\ nqm_state \in {"READ_S", "WAIT0_S"} /\ WriteHit
       /\ ov_queue_rdata' = ov_queue_data
       /\ o_queue_rdata_valid' = TRUE
       /\ nqm_state' = "IDLE_S"
    \/ /\ nqm_state \in {"READ_S", "WAIT0_S"} /\ ~WriteHit
       /\ o_queue_rdata_valid' = FALSE
       /\ nqm_state' = IF nqm_state = "READ_S" THEN "WAIT0_S" ELSE "WAIT1_S"
       /\ UNCHANGED ov_queue_rdata
    \/ /\ nqm_state = "WAIT1_S"
       /\ o_queue_rdata_valid' = TRUE
       /\ ov_queue_rdata' = IF WriteHit THEN ov_queue_data ELSE r_ram_rdata
       /\ nqm_state' = "IDLE_S"

(* virtual_queue_manage: the id is sent when the word at it is valid.      *)
SentId    == IF o_queue_rdata_valid THEN ov_queue_raddr ELSE NoBufid
SentQueue == IF o_queue_rdata_valid THEN ov_schdule_queue ELSE NoQueue

(* Mutants: no bypass of a link written in the cycle in which its id is    *)
(* sent, and none of a link written in the cycle after.                    *)
HeadAfterNoBypass(q) ==
    IF q \in rv_empty_delay
      THEN IF ov_queue_id = q THEN ov_queue_waddr ELSE rv_queue_first_addr[q]
    ELSE IF q = SentQueue THEN ov_queue_rdata
    ELSE IF ov_queue_id = q /\ ov_queue_waddr = rv_pkt_bufid_delay
      THEN ov_queue_data
    ELSE rv_queue_first_addr[q]

HeadAfterNoDelay(q) ==
    IF q \in rv_empty_delay
      THEN IF ov_queue_id = q THEN ov_queue_waddr ELSE rv_queue_first_addr[q]
    ELSE IF q = SentQueue
      THEN IF ov_queue_id = q /\ ov_queue_waddr = SentId THEN ov_queue_data ELSE ov_queue_rdata
    ELSE rv_queue_first_addr[q]

(* The head of queue q in the next cycle.                                  *)
HeadAfter(q) ==
    IF q \in rv_empty_delay
      THEN IF ov_queue_id = q THEN ov_queue_waddr ELSE rv_queue_first_addr[q]
    ELSE IF q = SentQueue
      THEN IF ov_queue_id = q /\ ov_queue_waddr = SentId THEN ov_queue_data ELSE ov_queue_rdata
    ELSE IF ov_queue_id = q /\ ov_queue_waddr = rv_pkt_bufid_delay
      THEN ov_queue_data
    ELSE rv_queue_first_addr[q]

VirtualQueues ==
    /\ rv_queue_first_addr' = [q \in Queues |-> HeadAfter(q)]
    /\ rv_empty_delay' = {q \in Queues : QueueEmpty(q)}
    /\ rv_pkt_bufid_delay' = SentId
    /\ o_queue_rd' = o_schdule_queue_wr
    /\ ov_queue_raddr' = IF o_schdule_queue_wr THEN rv_queue_first_addr[ov_schdule_queue]
                         ELSE ov_queue_raddr

OutputScheduleCycle(ack) == PickQueue(ack) /\ QueueMemory /\ ReadWord /\ VirtualQueues
============================================================================
