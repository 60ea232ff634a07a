---------------------- MODULE MCPktCentralizedBuffer -----------------------
(***************************************************************************)
(* Values of the constants for the model checker.                          *)
(***************************************************************************)
EXTENDS PktCentralizedBuffer

MCWired   == {0, 1}
MCHost    == 1
MCOutMaps == {{}, {0}, {0, 1}}
MCTwoMaps == {{}, {0, 1}}

(* States that differ only in registers nobody reads before they are       *)
(* written again are one state to the checker.                             *)
Dead(cond, value) == IF cond THEN NoBufid ELSE value

LiveRegisters ==
    <<fifo, visible, Dead(~Fetched, iv_pkt_bufid), ardVars,
      awr_state, outport_reg, bufid_send_cnt, o_pkt_bufid,
      Dead(awr_state = "wr_bufid_ch_s" /\ ~wr_bufid_wr, bufid_addr),
      wr_bufid_wr, Dead(~wr_bufid_wr, wr_outport_num),
      Dead(awr_state \notin {"wait_for_ram2", "rd_ram"}, rd_outport_num),
      [id \in Bufids |-> Dead(Copies(id) = {}, outport_num[id])],
      release, portVars, monitorVars>>
============================================================================
