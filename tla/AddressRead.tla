---------------------------- MODULE AddressRead ----------------------------
(***************************************************************************)
(* address_read.v: a finite state machine that polls the ports in turn and *)
(* gives each port that used up its buffer id the next id of the free-id   *)
(* FIFO.  rd_bufid_ch0_s .. rd_bufid_ch8_s are one state rd_bufid_ch_s     *)
(* with the polled channel in ard_ch.  One action is one clock cycle.      *)
(***************************************************************************)
EXTENDS FreeBufidFifo

VARIABLES
    ard_state,      \* ov_address_read_state
    ard_ch,         \* N of rd_bufid_chN_s
    offer,          \* ov_pkt_bufid_pN while o_pkt_bufid_wr_pN, else NoBufid
    ack,            \* i_pkt_bufid_ack_pN, a pulse of one cycle
    reg_bufid_ack,  \* reg_bufid_ack_pN: port N was served and waits for an id
    rd_valid        \* the channels whose FIFO read is under way

ardVars == <<ard_state, ard_ch, offer, ack, reg_bufid_ack, rd_valid>>

ArdTypeOK ==
    /\ ard_state \in {"initial_s", "rd_bufid_ch_s", "wait_1s"}
    /\ ard_ch \in Ports
    /\ offer \in [Ports -> Bufids \cup {NoBufid}]
    /\ ack \in [Ports -> BOOLEAN]
    /\ reg_bufid_ack \in [Ports -> BOOLEAN]
    /\ rd_valid \in SUBSET Ports

ArdInit ==
    /\ ard_state = "initial_s"
    /\ ard_ch = 0
    /\ offer = [p \in Ports |-> NoBufid]
    /\ ack = [p \in Ports |-> FALSE]
    /\ reg_bufid_ack = [p \in Ports |-> FALSE]
    /\ rd_valid = {}

(* initial_s: the first ids go to the ports without passing the FIFO.      *)
InitialOffer ==
    /\ ard_state = "initial_s"
    /\ offer' = [p \in Ports |-> p]
    /\ ard_state' = "rd_bufid_ch_s"
    /\ UNCHANGED <<ard_ch, ack, reg_bufid_ack, rd_valid, fifoVars>>

(* Port n acknowledged its id, now or since it was polled last.            *)
Served(n) == ack[n] \/ reg_bufid_ack[n]

(* The channel polled before n takes the word its FIFO read returned.      *)
Taking(n, p) == p = PrevPort(n) /\ p \in rd_valid

(* Mutants: an acknowledged id stays on the register of another port, and  *)
(* the polled port gives its id up though it was not served.               *)
OfferAfterPollAckMissed(n, p) ==
    IF p = n /\ Served(n) THEN NoBufid
    ELSE IF Taking(n, p) THEN iv_pkt_bufid
    ELSE offer[p]

OfferAfterPollUnserved(n, p) ==
    IF p = n THEN NoBufid
    ELSE IF Taking(n, p) THEN iv_pkt_bufid
    ELSE IF ack[p] THEN NoBufid
    ELSE offer[p]

(* The id register of port p after channel n is polled: a served port gives*)
(* its id up, the word read for the channel before n is handed out, and any*)
(* other acknowledged id is withdrawn.                                     *)
OfferAfterPoll(n, p) ==
    IF p = n /\ Served(n) THEN NoBufid
    ELSE IF Taking(n, p) THEN iv_pkt_bufid
    ELSE IF ack[p] THEN NoBufid
    ELSE offer[p]

(* rd_bufid_chN_s.                                                         *)
PollChannel(n) ==
    /\ ard_state = "rd_bufid_ch_s" /\ ard_ch = n
    /\ offer' = [p \in Ports |-> OfferAfterPoll(n, p)]
    /\ reg_bufid_ack' = [p \in Ports |->
                   IF p = n THEN Served(n) /\ Empty
                   ELSE IF Taking(n, p) THEN reg_bufid_ack[p]
                   ELSE ack[p] \/ reg_bufid_ack[p]]
    /\ ack' = [p \in Ports |-> FALSE]
    /\ IF Served(n) /\ ~Empty
         THEN /\ rd_valid' = (rd_valid \ {PrevPort(n)}) \cup {n}
              /\ ard_state' = "wait_1s"
              /\ UNCHANGED ard_ch
         ELSE /\ rd_valid' = rd_valid \ {PrevPort(n), n}
              /\ ard_ch' = NextPort(n)
              /\ UNCHANGED ard_state
    /\ UNCHANGED fifoVars

(* Mutant: the polling starts again at channel 0 after every fetch.        *)
ChannelAfterFetchRestart == 0

(* The channel polled after a FIFO read: the one after the lowest channel  *)
(* whose read is under way.                                                *)
ChannelAfterFetch ==
    IF rd_valid = {} THEN 0
    ELSE NextPort(CHOOSE n \in rd_valid : \A m \in rd_valid : n <= m)

(* wait_1s: the FIFO read is performed; acks are latched meanwhile.        *)
WaitFifo ==
    /\ ard_state = "wait_1s"
    /\ FetchBufid
    /\ ard_state' = "rd_bufid_ch_s"
    /\ ard_ch' = ChannelAfterFetch
    /\ offer' = [p \in Ports |-> IF ack[p] THEN NoBufid ELSE offer[p]]
    /\ reg_bufid_ack' = [p \in Ports |-> ack[p] \/ reg_bufid_ack[p]]
    /\ ack' = [p \in Ports |-> FALSE]
    /\ UNCHANGED rd_valid

ReadCycle == InitialOffer \/ (\E n \in Ports : PollChannel(n)) \/ WaitFifo
============================================================================
