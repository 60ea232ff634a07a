------------------------ MODULE MCNetworkOutputPort ------------------------
(***************************************************************************)
(* Values of the constants for the model checker.                          *)
(***************************************************************************)
EXTENDS NetworkOutputPort

MCPortIds == {0, 1, 2}    \* 0 is also the null pointer of the lists
MCTwoTypes == {0, 1}
MCAllGates == SUBSET {0, 1}
MCSomeGates == {{0}, {1}}
MCQueue0Open == {{0}, {0, 1}}
Qch == {TRUE}
Qbv == {FALSE}
AnyMode == {TRUE, FALSE}

(* States that differ only in registers nobody reads before they are       *)
(* written again are one state to the checker.                             *)
Dead(cond, value) == IF cond THEN NoBufid ELSE value
Followed(a) == \E q \in Queues : \E i \in 1 .. rv_queue_count[q] - 1 : Linked(q)[i] = a

LiveRegisters ==
    <<rv_queue, Dead(rv_queue = NoQueue, rv_bufid_cache), rv_queue_count,
      [q \in Queues |-> Dead(QueueEmpty(q), rv_last_addr[q])],
      ov_queue_id, ov_queue_waddr, ov_queue_data, gateVars,
      ov_osc_state, Dead(ov_osc_state = "IDLE_S", ov_schdule_queue), o_schdule_queue_wr,
      [q \in Queues |-> Dead(QueueEmpty(q), rv_queue_first_addr[q])],
      Dead(~(o_queue_rd \/ nqm_state # "IDLE_S" \/ o_queue_rdata_valid), ov_queue_raddr),
      o_queue_rd, rv_empty_delay, rv_pkt_bufid_delay,
      [a \in Bufids |-> Dead(~Followed(a), queue_ram[a])],
      Dead(nqm_state \notin {"WAIT0_S", "WAIT1_S"}, r_ram_rdata), nqm_state,
      Dead(~o_queue_rdata_valid, ov_queue_rdata), o_queue_rdata_valid,
      txVars, owned>>

(* CqfHold also tells states apart by the history it reads.                *)
LiveRegistersAndSlot == <<LiveRegisters, slot_ids>>
============================================================================
