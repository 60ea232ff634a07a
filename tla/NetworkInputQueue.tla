------------------------- MODULE NetworkInputQueue -------------------------
(***************************************************************************)
(* network_input_queue.v: the queue memory of an output port from the      *)
(* writing side.  The memory holds one word per buffer id, and a queue is  *)
(* a list linked through it: the word at an id is the id queued next.  An  *)
(* id passes two pipeline stages, the queue selection and the memory write.*)
(* The operators below are the always blocks; their parameters are the     *)
(* input wires of the clock cycle.                                         *)
(***************************************************************************)
EXTENDS Naturals

CONSTANTS
    NumBufids,  \* words of the queue memory (512 in the RTL)
    PortIds,    \* the ids a descriptor of this port can have
    NumQueues,  \* queues of the port (8 in the RTL)
    TsTypes     \* the packet types of time-sensitive traffic (0, 1 and 2)

Bufids  == 0 .. NumBufids - 1
Queues  == 0 .. NumQueues - 1
NoQueue == NumQueues        \* a queue register whose strobe is low
NoBufid == NumBufids        \* an id register whose strobe is low

(* The ids 4 to 7 stay with the ports that are not wired in this build: the*)
(* number of ids in a queue is below NumBufids, and 9 bits can count them. *)
ASSUME NumBufidsAssumption == NumBufids \in Nat
ASSUME PortIdsAssumption   == PortIds \subseteq Bufids /\ PortIds # Bufids
ASSUME QueuesAssumption    == NumQueues \in Nat /\ NumQueues >= 2

VARIABLES
    rv_queue,       \* queue of the id in rv_bufid_cache, NoQueue if !r_queue_wr
    rv_bufid_cache, \* the id that passes the queue selection
    rv_queue_count, \* the ids in each queue
    rv_last_addr,   \* the id at the tail of each queue
    ov_queue_id,    \* queue of the memory write, NoQueue if !o_queue_wr
    ov_queue_waddr, \* address of the memory write
    ov_queue_data   \* data of the memory write

niqVars == <<rv_queue, rv_bufid_cache, rv_queue_count, rv_last_addr,
             ov_queue_id, ov_queue_waddr, ov_queue_data>>

NiqTypeOK ==
    /\ rv_queue \in Queues \cup {NoQueue}
    /\ rv_bufid_cache \in Bufids
    /\ rv_queue_count \in [Queues -> 0 .. NumBufids - 1]
    /\ rv_last_addr \in [Queues -> Bufids]
    /\ ov_queue_id \in Queues \cup {NoQueue}
    /\ ov_queue_waddr \in Bufids
    /\ ov_queue_data \in Bufids

NiqInit ==
    /\ rv_queue = NoQueue
    /\ rv_bufid_cache = 0
    /\ rv_queue_count = [q \in Queues |-> 0]
    /\ rv_last_addr = [q \in Queues |-> 0]
    /\ ov_queue_id = NoQueue
    /\ ov_queue_waddr = 0
    /\ ov_queue_data = 0

QueueEmpty(q) == rv_queue_count[q] = 0     \* ov_queue_empty[q]

(* The queue of a packet: its type, or for time-sensitive packets under qch*)
(* the queue whose input gate is open; a packet is dropped when not exactly*)
(* one gate is open.                                                       *)
SelectedQueue(type, qch, in_gate) ==
    IF qch /\ type \in TsTypes
      THEN IF in_gate = {0} THEN 0 ELSE IF in_gate = {1} THEN 1 ELSE NoQueue
      ELSE type

(* Stage 1: id is NoBufid when no descriptor arrives.                      *)
SelectQueue(id, type, qch, in_gate) ==
    /\ rv_queue' = IF id = NoBufid THEN NoQueue ELSE SelectedQueue(type, qch, in_gate)
    /\ rv_bufid_cache' = IF id = NoBufid THEN rv_bufid_cache ELSE id

(* Mutant: an id that enters the queue another one leaves counts as new.   *)
CountAfterNoCancel(q, left) ==
    IF q = rv_queue THEN rv_queue_count[q] + 1
    ELSE IF q = left THEN rv_queue_count[q] - 1
    ELSE rv_queue_count[q]

(* The counts: an id that enters a queue and one that leaves it in the same*)
(* cycle keep its count (9 bits, so modulo NumBufids).                     *)
CountAfter(q, left) ==
    IF q = rv_queue /\ q # left THEN (rv_queue_count[q] + 1) % NumBufids
    ELSE IF q = left /\ q # rv_queue THEN (rv_queue_count[q] + NumBufids - 1) % NumBufids
    ELSE rv_queue_count[q]

CountIds(left) == rv_queue_count' = [q \in Queues |-> CountAfter(q, left)]

(* Stage 2: the id is linked behind the tail, or starts a queue.           *)
LinkAddress(q) == IF QueueEmpty(q) THEN rv_bufid_cache ELSE rv_last_addr[q]
LinkData(q)    == IF QueueEmpty(q) THEN 0 ELSE rv_bufid_cache

WriteLink ==
    /\ ov_queue_id' = rv_queue
    /\ IF rv_queue = NoQueue
         THEN /\ ov_queue_waddr' = 0
              /\ ov_queue_data' = 0
              /\ UNCHANGED rv_last_addr
         ELSE /\ ov_queue_waddr' = LinkAddress(rv_queue)
              /\ ov_queue_data' = LinkData(rv_queue)
              /\ rv_last_addr' = [rv_last_addr EXCEPT ![rv_queue] = rv_bufid_cache]

InputQueueCycle(id, type, qch, in_gate, left) ==
    /\ SelectQueue(id, type, qch, in_gate)
    /\ CountIds(left)
    /\ WriteLink
============================================================================
