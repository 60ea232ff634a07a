-------------------------- MODULE QueueGateControl -------------------------
(***************************************************************************)
(* gate_control.v: the gates of an output port.  Under qch (cyclic queuing *)
(* and forwarding) queues 0 and 1 take turns: in one time slot one of them *)
(* takes the arriving packets while the other one is sent.  Under qbv the  *)
(* output gates of a slot are read from the gate control list.  The list   *)
(* is data of the configuration: GateVectors holds the words it may have.  *)
(***************************************************************************)
EXTENDS NetworkInputQueue

CONSTANT GateVectors
ASSUME GateVectorsAssumption == GateVectors \subseteq SUBSET Queues

VARIABLES
    iv_time_slot, \* bit 0 of the time slot
    i_time_slot_switch, \* up in the first cycle of a slot
    in_gate,      \* ov_in_gate_ctrl_vector: the open ones of queues 0 and 1
    out_gate,     \* ov_out_gate_ctrl_vector: the open queues
    gc_state

gateVars == <<iv_time_slot, i_time_slot_switch, in_gate, out_gate, gc_state>>

GateTypeOK ==
    /\ iv_time_slot \in {0, 1}
    /\ i_time_slot_switch \in BOOLEAN
    /\ in_gate \in SUBSET {0, 1}
    /\ out_gate \in SUBSET Queues
    /\ gc_state \in {"IDLE_S", "WITE1_S", "WITE2_S", "GATE_S"}

GateInit ==
    /\ iv_time_slot = 0
    /\ i_time_slot_switch = FALSE
    /\ in_gate = {}
    /\ out_gate = {}
    /\ gc_state = "IDLE_S"

(* Input gate (mutant: the slot's parity is inverted).                     *)
InGateInverted(qch) == IF ~qch THEN {0, 1} ELSE {1 - iv_time_slot}
InGate(qch) == IF ~qch THEN {0, 1} ELSE {iv_time_slot}

(* Output gate under qch: queue 0 is closed in even slots, 1 in odd ones.  *)
QchOutGate == Queues \ {iv_time_slot}

OutGateCycle(qch) ==
    \/ /\ gc_state = "IDLE_S" /\ ~qch
       /\ gc_state' = IF i_time_slot_switch THEN "WITE1_S" ELSE "IDLE_S"
       /\ UNCHANGED out_gate
    \/ /\ gc_state = "IDLE_S" /\ qch
       /\ out_gate' = QchOutGate
       /\ UNCHANGED gc_state
    \/ /\ gc_state = "WITE1_S"
       /\ gc_state' = "WITE2_S"
       /\ UNCHANGED out_gate
    \/ /\ gc_state = "WITE2_S"
       /\ gc_state' = "GATE_S"
       /\ UNCHANGED out_gate
    \/ /\ gc_state = "GATE_S"
       /\ out_gate' \in GateVectors
       /\ gc_state' = "IDLE_S"

(* time_slot_calculation: the pulse and the new slot number come together. *)
(* The parity alternates unless the period is one slot or is reconfigured. *)
(* A slot (4 us or more) is longer than the read of the gate list.         *)
TimeSlot ==
    \/ /\ i_time_slot_switch' = FALSE
       /\ UNCHANGED iv_time_slot
    \/ /\ gc_state = "IDLE_S" /\ ~i_time_slot_switch
       /\ i_time_slot_switch' = TRUE
       /\ iv_time_slot' \in {0, 1}

GateCycle(qch) ==
    /\ in_gate' = InGate(qch)
    /\ OutGateCycle(qch)
    /\ TimeSlot
============================================================================
