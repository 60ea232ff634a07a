------------------------------ MODULE PtpSync ------------------------------
(***************************************************************************)
(* Clock synchronization: the PTP service of a master node and that of a   *)
(* slave (ptp.c), the switches that stamp their packets                    *)
(* (ptp_receive_process.v and host_tx), and the slave's clock, which the   *)
(* slave's service sets through registers (nmac_parse_module.v,            *)
(* global_time_sync.v).                                                    *)
(*                                                                         *)
(* One step of the master stands for its service and its switch, whose     *)
(* clock nobody sets.  The slave's service writes requests and register    *)
(* values into one queue, one by one, from which its switch takes them.    *)
(* The network keeps the order and may lose packets.  A packet crosses two *)
(* switches, that of its sender (network_tx) and that of its receiver      *)
(* (host_tx); each adds to the correction field what its timer says of the *)
(* packet's stay.                                                          *)
(*                                                                         *)
(* The clocks run at one rate.                                             *)
(***************************************************************************)
EXTENDS PtpTime, Sequences

CONSTANTS
    Start,          \* the master's clock at the start, in cycles
    Skews,          \* what the slave's clock may be ahead of it then
    LinkDelay,      \* the cycles that a packet may spend on links
    Timer,          \* the cycles after which the timers of the stays start again
    Part,           \* the low register of the offset holds it modulo this
    TxCap,          \* the capacity of ptp_context.txq
    PeriodCycles,   \* ptp_period * 1000000 / 8: the cycles of a sync period
    PeriodReg,      \* ov_offset_period has 24 bits
    MaxSync, MaxNow, NetCap     \* bounds

ASSUME SyncAssumption ==
    /\ Start \in Nat /\ Skews \subseteq Int /\ LinkDelay \subseteq Nat
    /\ \A s \in Skews : Start + s >= 0
    /\ Timer \in Nat \ {0} /\ Part \in Nat \ {0} /\ Top % Part = 0
    /\ TxCap \in Nat /\ PeriodCycles \in Nat /\ PeriodReg \in Nat \ {0}
    /\ MaxSync \in Nat /\ MaxNow \in Nat /\ NetCap \in Nat \ {0}

VARIABLES
    now,            \* the cycles that the master's clock has counted
    ov_syned_time,  \* the slave's clock
    iv_time_offset, i_time_offset_wr, iv_offset_period, offset_counter,
    half,           \* the low register of the offset is written, the high one not yet
    down, up,       \* the packets under way to the slave and to the master
    txq,            \* ptp_context.txq of the slave
    pending,        \* what a handler of the slave has still to write to it
    Local_ts_info, offset_seq, preoffset,
    dropped,        \* a register value found the queue full (history)
    sent,           \* the number of sync packets (bound)
    steps,          \* how often the slave's clock did more than count (history)
    since,          \* steps when the times behind iv_time_offset were taken, or -1 (history)
    total           \* the signed sum of the offsets that are guided (history)

switch == <<ov_syned_time, iv_time_offset, i_time_offset_wr, iv_offset_period, offset_counter, half>>
service == <<Local_ts_info, offset_seq, preoffset, total>>
writes == <<txq, pending, dropped>>
vars == <<now, switch, down, up, writes, service, sent, steps, since>>

Init ==
    /\ now = Start /\ \E s \in Skews : ov_syned_time = corr_trans(Start + s)
    /\ iv_time_offset = 0 /\ i_time_offset_wr = FALSE
    /\ iv_offset_period = 0 /\ offset_counter = 0 /\ half = FALSE
    /\ down = <<>> /\ up = <<>> /\ txq = <<>> /\ pending = <<>> /\ dropped = FALSE
    /\ Local_ts_info = [ t1 |-> 0, t2 |-> 0, rorr1 |-> 0, offset |-> 0, offset_flag |-> 0,
                         guide_offset_flag |-> 0, at |-> 0 ]
    /\ offset_seq = 0 /\ preoffset = 0 /\ total = 0
    /\ sent = 0 /\ steps = 0 /\ since = -1

-----------------------------------------------------------------------------
(* The clocks                                                                *)

Adjusting ==
    i_time_offset_wr \/ (iv_offset_period # 0 /\ offset_counter = iv_offset_period)

\* A cycle of both clocks.
Tick ==
    /\ now < MaxNow
    /\ now' = now + 1
    /\ ov_syned_time' =
        IF Adjusting THEN Adjusted(ov_syned_time, iv_time_offset) ELSE Ticked(ov_syned_time)
    /\ steps' = IF Adjusting \/ ~Legal(ov_syned_time) THEN steps + 1 ELSE steps
    /\ i_time_offset_wr' = FALSE
    /\ offset_counter' =
        IF i_time_offset_wr \/ offset_counter = iv_offset_period \/ iv_offset_period = 0
        THEN 0 ELSE (offset_counter + 1) % PeriodReg
    /\ UNCHANGED <<iv_time_offset, iv_offset_period, half, down, up, writes, service, sent, since>>

-----------------------------------------------------------------------------
(* The master and the network                                                *)

\* The timer message arrives: sync_handler_master builds a sync packet and the
\* switch stamps it.
sync_handler_master ==
    /\ sent < MaxSync /\ Len(down) < NetCap
    /\ sent' = sent + 1
    /\ down' = Append(down, [type |-> "sync", t1 |-> corr_trans(now), left |-> now])
    /\ UNCHANGED <<now, switch, up, writes, service, steps, since>>

\* The cycles that a packet, left at a time and d cycles on links, was in switches.
Stay(left, d) == now - left - d

\* What the sender's switch counts of a stay: the difference of two values of a timer,
\* one cycle short when the timer has started again in between.
NetworkCount(kept, wrapped) == (kept % Timer) - wrapped

\* What the receiver's switch counts, to which equal values are a whole period.
\* (Mutant: they are no cycle.)
HostCountZero(kept) == kept % Timer
HostCount(kept) == IF kept % Timer = 0 THEN Timer ELSE kept % Timer

\* The correction field of a packet of which the sender's switch kept `kept' cycles.
Corr(left, d, kept, wrapped) == NetworkCount(kept, wrapped) + HostCount(Stay(left, d) - kept)

\* The packet is in the receiver's switch for a cycle at least; a timer can only start
\* again while a packet waits.
Arrives(left, d, kept, wrapped) ==
    kept < Stay(left, d) /\ (wrapped = 1 => kept % Timer > 0)

\* Neither switch kept it for more cycles than its timer tells apart.
Counted(left, d, kept) == kept < Timer /\ Stay(left, d) - kept <= Timer

\* A request arrives, is stamped, and answered with t4 - t3 - corr.
delay_req_handler(d, kept, wrapped) ==
    /\ up # <<>> /\ Len(down) < NetCap
    /\ LET req == Head(up) IN
        /\ Arrives(req.left, d, kept, wrapped)
        /\ down' = Append(down,
                [ type |-> "resp", at |-> IF Counted(req.left, d, kept) THEN req.at ELSE -1,
                  t3 |-> ts_sub(corr_trans(now),
                                ts_add(req.t3, corr_trans(Corr(req.left, d, kept, wrapped)))) ])
    /\ up' = Tail(up)
    /\ UNCHANGED <<now, switch, writes, service, sent, steps, since>>

LoseDown ==
    /\ down # <<>> /\ down' = Tail(down)
    /\ UNCHANGED <<now, switch, up, writes, service, sent, steps, since>>
LoseUp ==
    /\ up # <<>> /\ up' = Tail(up)
    /\ UNCHANGED <<now, switch, down, writes, service, sent, steps, since>>

-----------------------------------------------------------------------------
(* The slave's service                                                       *)

\* hx_write_msg_quene_node: a message that finds the queue full is freed.
Write(message) == txq' = IF Len(txq) < TxCap THEN Append(txq, message) ELSE txq

\* A sync packet arrives and is stamped; its times wait in Local_ts_info for the
\* response, over those of an exchange that is not finished.
sync_handler_slave(d, kept, wrapped) ==
    /\ pending = <<>>
    /\ down # <<>> /\ Head(down).type = "sync"
    /\ LET sync == Head(down) IN
        /\ Arrives(sync.left, d, kept, wrapped)
        /\ Local_ts_info' = [Local_ts_info EXCEPT
                !.t1 = sync.t1, !.t2 = ov_syned_time,
                !.rorr1 = Corr(sync.left, d, kept, wrapped),
                !.at = IF Counted(sync.left, d, kept) THEN steps ELSE -1]
    /\ Write([type |-> "req"])
    /\ down' = Tail(down)
    /\ UNCHANGED <<now, switch, up, pending, dropped, offset_seq, preoffset, total,
                   sent, steps, since>>

\* get_h_offset: the clock adds an offset without the sign.  The register is as wide
\* as an offset and its sign.
Signed(flag, value) == (IF flag = 0 THEN value + Top ELSE value) % (2 * Top)
Offset(flag, value, at) == [type |-> "offset", value |-> Signed(flag, value), at |-> at]

\* The register has fewer bits than guide_offset_frequency.  (Mutant: as many.)
PeriodUncut(value) == [type |-> "period", value |-> value]
Period(value) == [type |-> "period", value |-> value % PeriodReg]

\* guide_offset_frequency: the cycles between two guiding steps.
Frequency(sum) == PeriodCycles \div (IF sum = 0 THEN 1 ELSE sum)

\* The sum of the offsets from the third response on, as a size and a flag.
\* (Mutant: the flag stays when the sum changes its sign.)
GuideKept(flag, offset) ==
    IF offset_seq = 2 THEN [flag |-> flag, sum |-> preoffset + offset]
    ELSE IF flag = Local_ts_info.guide_offset_flag THEN [flag |-> flag, sum |-> preoffset + offset]
    ELSE IF offset > preoffset THEN [flag |-> Local_ts_info.guide_offset_flag, sum |-> offset - preoffset]
    ELSE [flag |-> Local_ts_info.guide_offset_flag, sum |-> preoffset - offset]
Guide(flag, offset) ==
    IF offset_seq = 2 \/ flag = Local_ts_info.guide_offset_flag
    THEN [flag |-> flag, sum |-> preoffset + offset]
    ELSE IF offset > preoffset THEN [flag |-> flag, sum |-> offset - preoffset]
    ELSE [flag |-> Local_ts_info.guide_offset_flag, sum |-> preoffset - offset]

\* A guiding step is one cycle.  It is none for the sum zero, but behind the third
\* response only when the flags differed.
GuideOffset(flag, sum) ==
    IF sum = 0 /\ (offset_seq = 2 \/ flag # Local_ts_info.guide_offset_flag) THEN 0 ELSE 1

\* A response arrives: the offset is sent to the clock at once and then the guiding
\* is stopped; from the third response on a new guiding follows.  (Mutant: the
\* guiding goes on.)
NowGuiding(offset) == <<offset, Period(1)>>
Now(offset) == <<offset, Period(0)>>

delay_resp_handler_1 ==
    /\ pending = <<>>
    /\ down # <<>> /\ Head(down).type = "resp"
    /\ LET info == Local_ts_info
           t4 == ts_sub(info.t2, ts_add(info.t1, corr_trans(info.rorr1)))
           new == ts_compute(t4, Head(down).t3)
           guide == Guide(new.flag, new.offset)
           at == IF Head(down).at = info.at THEN info.at ELSE -1
           first == Now(Offset(new.flag, new.offset, at))
           Guiding == <<Offset(guide.flag, GuideOffset(new.flag, guide.sum), -1),
                        Period(Frequency(guide.sum))>>
       IN  IF offset_seq < 2
           THEN /\ pending' = first
                /\ Local_ts_info' = [info EXCEPT !.offset = new.offset, !.offset_flag = new.flag]
                /\ UNCHANGED <<preoffset, total>>
           ELSE /\ pending' = first \o Guiding
                /\ Local_ts_info' = [info EXCEPT !.offset = new.offset, !.offset_flag = new.flag,
                                                 !.guide_offset_flag = guide.flag]
                /\ preoffset' = guide.sum
                /\ total' = total + IF new.flag = 0 THEN new.offset ELSE -new.offset
    /\ offset_seq' = offset_seq + 1
    /\ down' = Tail(down)
    /\ UNCHANGED <<now, switch, up, txq, dropped, sent, steps, since>>

\* The next of those messages: each is dropped on its own when the queue is full.
WriteNext ==
    /\ pending # <<>>
    /\ Write(Head(pending))
    /\ dropped' = (dropped \/ Len(txq) >= TxCap)
    /\ pending' = Tail(pending)
    /\ UNCHANGED <<now, switch, down, up, service, sent, steps, since>>

-----------------------------------------------------------------------------
(* The slave's switch takes from the queue.  An offset is parsed into a low    *)
(* and then into a high register; that raises the write pulse for one cycle.   *)

StampRequest ==
    /\ txq # <<>> /\ Head(txq).type = "req" /\ Len(up) < NetCap
    /\ up' = Append(up, [t3 |-> ov_syned_time, left |-> now, at |-> steps])
    /\ txq' = Tail(txq)
    /\ UNCHANGED <<now, switch, down, pending, dropped, service, sent, steps, since>>

\* The clock may be guided by the value that is half the old and half the new one.
SetOffsetLow ==
    /\ txq # <<>> /\ Head(txq).type = "offset" /\ ~i_time_offset_wr /\ ~half
    /\ iv_time_offset' = (iv_time_offset \div Part) * Part + (Head(txq).value % Part)
    /\ half' = TRUE /\ since' = -1
    /\ UNCHANGED <<now, ov_syned_time, i_time_offset_wr, iv_offset_period, offset_counter,
                   down, up, writes, service, sent, steps>>

SetOffset ==
    /\ half
    /\ iv_time_offset' = Head(txq).value /\ i_time_offset_wr' = TRUE
    /\ half' = FALSE /\ since' = Head(txq).at
    /\ txq' = Tail(txq)
    /\ UNCHANGED <<now, ov_syned_time, iv_offset_period, offset_counter,
                   down, up, pending, dropped, service, sent, steps>>

SetPeriod ==
    /\ txq # <<>> /\ Head(txq).type = "period" /\ ~i_time_offset_wr
    /\ iv_offset_period' = Head(txq).value
    /\ txq' = Tail(txq)
    /\ UNCHANGED <<now, ov_syned_time, iv_time_offset, i_time_offset_wr, offset_counter, half,
                   down, up, pending, dropped, service, sent, steps, since>>

Next ==
    \/ Tick \/ sync_handler_master \/ LoseDown \/ LoseUp
    \/ \E d \in LinkDelay, kept \in 0 .. MaxNow, wrapped \in {0, 1} :
        delay_req_handler(d, kept, wrapped) \/ sync_handler_slave(d, kept, wrapped)
    \/ delay_resp_handler_1 \/ WriteNext
    \/ StampRequest \/ SetOffsetLow \/ SetOffset \/ SetPeriod

Spec == Init /\ [][Next]_vars

-----------------------------------------------------------------------------
\* The types: every register and queue stays within its width.  (An offset of Top is that
\* of a negative zero, which ts_sub returns for a digit that the clock does not count.)
TypeOK ==
    /\ now \in Nat /\ ov_syned_time \in 0 .. Top - 1
    /\ iv_time_offset \in 0 .. 2 * Top - 1 /\ i_time_offset_wr \in BOOLEAN
    /\ iv_offset_period \in 0 .. PeriodReg - 1 /\ offset_counter \in 0 .. PeriodReg - 1
    /\ half \in BOOLEAN /\ dropped \in BOOLEAN /\ Len(pending) <= 4
    /\ Len(down) <= NetCap /\ Len(up) <= NetCap /\ Len(txq) <= TxCap
    /\ Local_ts_info.offset \in 0 .. Top /\ Local_ts_info.offset_flag \in {0, 1}
    /\ Local_ts_info.guide_offset_flag \in {0, 1}
    /\ offset_seq \in Nat /\ preoffset \in Nat
    /\ sent \in 0 .. MaxSync /\ steps \in Nat /\ since \in Nat \cup {-1}

\* What the slave's clock is ahead of the master's, in cycles.
Ahead == Plain(ov_syned_time) - now

\* What is in no correction field: the time on links, and a cycle for a timer that
\* started again.
Uncounted == {d + wrapped : d \in LinkDelay, wrapped \in {0, 1}}
Uncertainty == {u1 - u2 : u1 \in Uncounted, u2 \in Uncounted}

\* An offset that is computed from times of the clock as it now is brings the clock
\* to the master's, up to half the difference of what is in no correction field and
\* one cycle and a half of rounding: whatever packets and register values were lost,
\* whichever exchanges overlapped, and also when the offset's digit is one the clock
\* does not count.  (Not when a switch kept the packets for more than a period of its
\* timer; nor when the clock's own digit is not one it counts: the clock then loses
\* a microsecond.)
SyncStep ==
    [][ i_time_offset_wr /\ ~i_time_offset_wr' /\ since = steps /\ Legal(ov_syned_time)
        => \E u \in Uncertainty : 2 * Ahead' - u \in -3 .. 3 ]_vars

\* The size and the flag of the guided sum are those of the signed sum of all
\* offsets since the third response, also when they change sign in between.
GuideIsSum ==
    offset_seq > 2 =>
        total = IF Local_ts_info.guide_offset_flag = 0 THEN preoffset ELSE -preoffset

\* While the clock is guided, the register holds one cycle or none, of either sign, so
\* that the whole offset of a response is not added over and over.  It is there with
\* the guiding on only while the switch has to take the stop next, or while it is being
\* parsed; or when a register value was dropped at the full queue.
GuidesByOneCycle ==
    iv_offset_period # 0 =>
        \/ iv_time_offset % Top \in {0, 1}
        \/ dropped \/ half
        \/ txq \o pending # <<>> /\ Head(txq \o pending) = Period(0)
=============================================================================
