# A TLA+ verification project for OpenTSN 2.0

OpenTSN 2.0 is an open time-sensitive-networking (TSN) switch.  The hardware
(`src/Hardware/code/TSNSWITCH2.0/rtl`, Verilog) receives frames, buffers them in
one shared packet memory, forwards small descriptors through a lookup table to
the output ports, and sends time-sensitive traffic in time slots (gate control
lists, "qbv", or cyclic queuing and forwarding, "qch").  The software
(`src/Software/TSNLight2.0_distributed/code`, C) is the controller that runs
beside a switch: it maps and regroups frames, answers ARP, synchronises time
(PTP) and configures the registers.  `src/Software/open-planner-master` (Python)
computes schedules offline with Z3.

This directory holds the TLA+ models of that code, the TLC runs that check them
on small instances, and TLAPS proofs for every value of the constants.

## 1. Inventory

Paths are relative to `rtl/` (hardware) or to the TSNLight `code/` directory.

| Part | State | Operations | Interacts through | Hard because | Correct when |
|---|---|---|---|---|---|
| Free buffer ids (`pkt_centralized_buffer/address_read.v`, `address_write.v`, `pkt_centralized_buffer.v`) | free-id FIFO, reference-count RAM, one id offer and one release request per port | offer and refill ids; take a release; decrement or free | request/ack pulses with nine ports, RAM port A written by the forward table | two polling machines, one-cycle pulses, a FIFO whose fill level lags, read-modify-write of a count over several cycles | no id is lost, shared or freed early; every released id returns; no port starves |
| Packet memory (`pkt_write.v`, `pkt_read.v`) | bus slots, address and data registers | grant a port its slot | one-word handshakes | a late grant meets the next word | every word is written and read once |
| Input port (`network_input_process`) | one descriptor, one skid word, parser states | parse, accept or discard, take an id, hand over the descriptor | id offer, forward table, packet memory | fill level checked long before the id is taken | a packet is forwarded with the id its words were written to |
| Forward table (`forward_lookup_table`) | descriptor registers of the ports, slot counter | take a descriptor, look up, distribute, write the copy count | all ports | fixed pipeline delays against the id ack | copies counted = copies distributed |
| Output port queues (`network_output_process` without `network_tx`) | linked lists in one RAM, heads, tails, counts, gates | select queue, link, pick, read next, bypass | forward table, transmitter | three-cycle read of a word that is being written, delayed flags, simultaneous enqueue and dequeue | each queue is first-in first-out, nothing is lost, repeated or sent in its arrival slot |
| Transmitter (`network_tx`) | cached id, read state, byte stream | take an id, read words, release the id | scheduler, packet memory, `address_write` | release request still pending when the next packet ends | one release per packet |
| Host receive (`host_receive_process`) | two descriptor registers, injection table, slot state | store, inject at the slot | forward table, packet memory | table entry overwritten while it is injected | a packet is injected once, in its slot |
| Host transmit (`host_transmit_process`) | host FIFO, submit table, read state | queue, submit at the slot, send, release | forward table, `address_write` | FIFO smaller than the number of ids, simultaneous release and receive | every id accepted is released |
| Time (`global_time_sync`, `time_slot_calculation`) | synchronised time, slot number | adjust, compute slot, pulse | gates, injection, submit | adjustments near a slot boundary | slots follow the time monotonically |
| Configuration and report (`configure_state_manage`) | registers, RAM tables, counters | parse command frames, report | every table | mostly layout | a command changes what it names |
| FIFO library (`ip/RAMFIFO`) | gray pointers, memory | push, pop, synchronise | every clock crossing | two clocks | never over- or underrun |
| GMII adapters, synchronizers | byte counters | preamble handling | MAC | byte-level only | frames pass unchanged |
| Buffers (`lib/buf.c`) | thread-local lists, shared pool of idle lists | `hx_malloc`, `hx_free_buf` | all threads | pool slot tested outside the mutex | no buffer is in two hands, no chain is cut behind its end; buffers are lost and counts wrong only after the races named in section 4 |
| Message queues and scheduler (`lib/quene.c`, `lib/schedule.c`) | ring per direction and service | read, write, dispatch by rule | all services | lock-free ring, blocking write on a full ring | every message reaches its service or is freed |
| Flow map (`tsn_app/flow_map`) | table, four variables from fragment to fragment, `RC_queue` | look up, tag, queue, drain by timer | queues, buffers | fragments do not say whose they are and may be lost; a full `RC_queue` | every packet that arrived whole gets its flow's tags; a stray body joins no flow |
| Local management (`tsn_app/local_mange`) | `chip_cfg_info`, parser state | read `reg_info`, build batches, send | queues, NMAC parser of the switch | counts the switch trusts, lists of any length, a queue that overflows | no wrong word in the switch; ports open only on a complete configuration |
| PTP (`tsn_app/ptp`, with the stamps of `host_rx`, `host_tx` and `global_time_sync.v`) | times of an exchange, guided sum and its sign, clock, period counter | sync, request, response; set offset and period | network, queues, registers | mixed-radix time with a sign bit; overlapping exchanges; timers that restart; lost packets and register messages | a measured offset brings the clock to the master's; the guided sum is the sum of the offsets; the guiding adds one cycle at a time |
| ARP, regroup, timer (`tsn_app/*`), idps (`np_app`) | ARP table, timer table | handlers of messages and timers | queues, buffers | signal handler against threads | see hazards in `PROJECT.json` |
| open-planner | none at run time | constraint generation | Z3 | - | - |

## 2. How the parts interact

A packet's life is the life of its **buffer id**.  `address_read` keeps one id on
offer at every input port.  A port that receives a packet takes the id (ack
pulse), writes the words to that buffer and hands a descriptor with the id to the
forward table.  The table writes the number of output ports into the count RAM
and gives the descriptor to those ports.  An output port links the id into one of
its eight queues; the gates and the scheduler pick a queue; the transmitter reads
the packet and requests the id's release; `address_write` decrements the count
or puts the id back into the free FIFO.  Two core models are the two halves of this circle: who
owns an id (`PktCentralizedBuffer`) and the order in which an output port sends
ids (`NetworkOutputPort`).

TSNLight's messages live in **buffers** of a pool that is cut into lists.  A
service thread takes a list, allocates messages from it and hands them on through
the queues; whoever consumes a message frees it into the list of its own thread,
and a list that grew to twice its size gives half of it back to the pool.  So
buffers flow from the threads that receive to the threads that send and back
through the pool.  The third core model (`BufPool`) is this circulation.

Between its allocation and its free a message moves through **queues**.  A
service writes only to its own transmit queue and reads only its own receive
queue; the scheduler (the main thread) polls the transmit queues in turn and
moves each message to the receive queue that `schedule_table` names for its
source and type.  Every ring therefore has one writer and one reader, and needs no
lock (`MsgQueue`).  A service that finds its transmit queue full frees the message;
only the scheduler waits, on a full receive queue (`MsgSchedule`).

Three services have models of what they do with a message.  **Local management**
fills the tables of the switch before anything else runs: its messages go through
its transmit queue to the switch, the last one opens the ports (`LocalManage`).
The **flow map** turns a user's packet into packets of the time-sensitive network,
fragment by fragment (`FlowMap`); what it sends is in the terms of the tables and
buffers above.  **PTP** measures the slave's clock against the master's and sets it
through the registers of the switch (`PtpSync`, on the arithmetic of `PtpTime`); the
slots of `QueueGateControl` are cut from that clock.

## 3. Modules

| Module | Models | How |
|---|---|---|
| `FreeBufidFifo` | `SFIFO_9_512` on `afifo*` | a sequence, and `visible` for the fill level the read side knows |
| `AddressRead` | `address_read.v` | `rd_bufid_ch0_s..ch8_s` are one state with `ard_ch`; one action is one clock cycle |
| `AddressWrite` | `address_write.v`, count RAM | the same; `MemoryPorts` is what FIFO and RAM do with the registered outputs of the cycle before |
| `PktCentralizedBuffer` | `pkt_centralized_buffer.v` and its neighbours | composes the two machines, the FIFO's synchronizer, the monitor and the ports |
| `BufferPool` | - | abstract specification: free, held, copies |
| `NetworkInputQueue` | `network_input_queue.v` | queue selection, count table, link writes |
| `QueueGateControl` | `gate_control.v`, slot pulse of `time_slot_calculation.v` | input and output gates |
| `NetworkOutputSchedule` | `output_schedule_control.v`, `virtual_queue_manage.v`, `network_queue_manage.v` | pick, read, bypasses |
| `NetworkOutputPort` | `network_output_port.v`, id handling of `pkt_read_control.v` | one clock: a step is one cycle of every block |
| `ClassQueues` | - | abstract specification: one FIFO sequence per queue |
| `BufPool` | `lib/buf.c`, the pool part of `hx_init` | one step per slot test and one per critical section; everything on a thread's own list is one step |
| `MsgQueue` | `lib/quene.c` | the ring, one step per access to a shared pointer or node |
| `MsgChannel` | - | abstract specification: a bounded FIFO channel |
| `MsgSchedule` | `lib/schedule.c` and the loops of all services of the FPGA build (`main.c`) | queues are sequences; a handler is two steps, the read and the rest; contents are packet kinds |
| `LocalManage` | `local_mange.c` at start-up, the write side of `nmac_parse_module.v` | one step per line of `reg_info` and per `build_..._info_ge`; the switch takes a message in one step |
| `FlowMap` | `map_service.c`: table, lookup, tagging | one step per fragment that arrives or is lost |
| `PtpTime` | `ts_add`, `ts_sub`, `ts_compute`, `corr_trans` of `ptp.c`; the adders of `global_time_sync.v` | operators on naturals; the bases are constants |
| `PtpSync` | the handlers of `ptp.c`, the stamps of `ptp_receive_process.v`, the correction by the timers of `output_control.v` and `host_output_interface.v`, the PTP registers, `global_time_sync.v` | one step per clock cycle, per handler, per message a handler writes and per register |
| `MC...` | - | constants and views for TLC |
| `PktCentralizedBuffer_proofs` | - | types, acknowledgements, offers; ownership, counts, monitors, refinement of `BufferPool` |
| `NetworkOutputPort_proofs` | - | the linked lists, refinement of `ClassQueues`, cyclic queuing |
| `BufPool_proofs` | - | no buffer is shared, lengths of the lists, where counts go wrong and lists are lost |
| `MsgQueue_proofs` | - | contents of the ring, refinement of `MsgChannel` |
| `MsgSchedule_proofs` | - | every message in one place, none forgotten, flows in order |
| `LocalManage_proofs` | - | what the switch holds is what the file says, and when it opens |
| `FlowMap_proofs` | - | tags of whole packets, stray bodies |
| `PtpSync_proofs` | - | arithmetic of times, guided sum, an offset synchronizes, widths, guiding by one cycle |

Registers keep the names of the source.  A value register and its strobe are one
variable (`offer[p]` is `ov_pkt_bufid_pN` while `o_pkt_bufid_wr_pN` is high, else
`NoBufid`).  The models differ in how they treat time.

* In `PktCentralizedBuffer` the two machines, the synchronizer and each port
  advance **in any order**: their relative speed depends on traffic and on the
  synchronizer, and what is proved of every interleaving holds of the clocked
  one.  Two timing facts are used, in guards that say so: a release request is
  served before the next packet of the port ends (`FinishPacket`), and the ack
  pulse of an id is over before the forward table takes the descriptor
  (`ForwardDescriptor`; `descriptor_delay_manage.v` delays it).
* In `NetworkOutputPort` the bypasses are right only because all blocks share a
  clock, so a step (`Tick`) is **one cycle of all blocks**, each reading the
  registers of the cycle before.  The environment chooses arrivals, the slot
  pulse, the gate words, the mode register and the length of a transmission.
* In `BufPool` the threads interleave at the granularity of the accesses to what
  they share: `idle_buf_pool[i]` is read without `buf_pool_mutex` (`...Probe`) and
  written under it (`...Take`, `...Store`), and nothing keeps the loops of two threads
  apart.  `slot[i] = {}` is the NULL pointer, `pc[t]` the loop a thread is in,
  `idx[t]` its `i`, `cut[t]` the local `new_buf_head`, `inUse` the messages in flight.
  Which threads allocate (`Getters`) and free (`Putters`) are constants; all are
  started together, by `hx_init`.  `lateGet` and `latePut` are history variables: the
  threads that lost a race for a slot between their test and their critical section.
* In `MsgQueue` a write is test, store, move of `rear`, and a read is test, load,
  clear, move of `front`.  The makefile compiles without optimisation, so the
  statements keep their order; the model assumes, as the code does, that the
  stores of one thread become visible in that order.
* In `MsgSchedule` a queue is a sequence (what `MsgQueue` justifies) and a message
  is its buffer.  `msg[b]` is `src_service_id` and `msg_type`, and the kind of
  packet where a service tells packets apart (`rc` and `be` flows of the map table,
  `ts` flows in regroup, the `ptp_type`s).  Every allocating service has buffers of
  its own (`OwnBuffer`), to which a freed buffer returns: the real lists are far
  longer than all queues together and are refilled from the pool.  `ahead` is a
  history variable.  An allocation that fails is not modelled (see section 6).
* In `LocalManage` the loader's thread never waits and nobody reads its queue before
  the scheduler runs, so a `build_..._info_ge`, with all messages it writes, is one
  step; a message that finds the queue full is freed there.  The scheduler starts
  after the loader because `main` sleeps between the two (`main.c:52-58`): the model
  takes this order as given.  A file is a sequence of keys and values.  The nodes of
  the inject and submit lists are taken to be zeroed (their `next` pointer is never
  set, see the hazard at `local_mange.c:357`), the depth of a gate list is a power of
  two, as `local_mange.h:155-157` has it.
* In `FlowMap` fragments arrive in order from one port (`get_msg_type` looks at the
  port that `TSN.cfg` names), any of them may be missing, and `count`,
  `sum_pkt_len`, `flow_id` and `ip_len` are the four variables that `hx_start_map`
  keeps between its calls.  A packet has a five-tuple, a length, a cut into fragments
  and, per fragment, whether its byte 23 is one: the byte that says ICMP in a head
  and anything in a body.  The planned buffer addresses leave room for a flow's
  fragments (`MapAssumption`); the planner sees to that.
* In `PtpSync` both clocks run at one rate (`Tick` is a cycle of both).  A step of
  the master stands for its service and its switch.  A packet crosses two switches, its
  sender's (`network_tx`) and its receiver's (`host_tx`), and each adds to the
  correction field what its 4 ms timer (`Timer`) says of the packet's stay:
  `NetworkCount` is a cycle short when the timer restarted (`output_control.v:379`),
  `HostCount` counts equal values as a whole period (`host_output_interface.v:321`).
  How long each kept the packet and whether the timer restarted is chosen, so a stay may
  also exceed the period and lose it.  Each further switch between the two nodes would
  add one more cycle to what may be missing.  The slave's handler leaves its
  messages in `pending` and writes them one by one (`WriteNext`), each on its own
  dropped at a full queue, while the switch takes from the queue.  The offset's low
  register is written in one step and its high register, with the write pulse, in
  another (the four bytes of each are one step); the period's bytes are one step.
  `steps`, `since`, `total` and `dropped` are history variables: how often the slave's
  clock was stepped, at which of these the times behind the present offset were taken,
  the signed sum of all offsets, and whether a register message was dropped.

## 4. What is checked

| Run | Instance | Properties | What it shows |
|---|---|---|---|
| `bufids` | 2 ports (one the host), 4 ids, bitmaps for host, unicast, multicast | `TypeOK`, `OneOwner`, `CountIsCopies`, `MonitorsQuiet`, `OfferHeld` | every id has one owner at all times, from reset on |
| `bufids_live` | 3 ids, host and multicast, fairness | `ImplementsPool`, `LastReleaseReturns`, `NoStarvation` | refinement of `BufferPool`; progress of both machines |
| `port_qch` | 3 ids at the port, 3 queues, qch | `TypeOK`, `Accounted`, `CqfHold`, `ImplementsQueues` | the lists are FIFO queues; no packet leaves in its arrival slot |
| `port_live` | 2 queues, qbv, gate 0 kept open, fairness | `HandshakeCompletes`, `TopQueueServed` | no deadlock of scheduler and transmitter, service of the first queue |
| `bufpool` | three threads started together, two allocating and two freeing, 3 lists of 2 | `TypeOK`, `NothingShared`, `ChainsLongEnough`, `SlotsWhole`, `WrongCountOnlyAfterRace`, `LostOnlyByOverwrite` | with every race at the slots: nothing is handed out twice, no chain is cut behind its end; a count is wrong and a list lost only in the two races named below |
| `msgqueue` | ring of 4 nodes, 3 messages, fairness | `TypeOK`, `NullOutsideWindow`, `ImplementsChannel`, `WriteReturns`, `StoredIsRead` | the ring is a FIFO channel of 3; no message is stuck, a blocking write returns |
| `schedule` | flow map, PTP master or slave, configuration, timers; two received packets at a time, all queues of length 1 | `TypeOK`, `HandledOnce`, `NothingForgotten`, `FlowOrder` | a message is in one place; only the full `RC_queue` forgets a buffer (`map_service.c:747`); flows keep their order |
| `schedule_live` | flow map, regroup, ARP, fairness | `Returns` | the blocking write of the scheduler stops nobody |
| `startup` | 559 files: every set of ids of a forward table of nine, lists around one and two full messages, five gate depths, sections in three orders, with registers left out and a section of an unknown type; 2 ports, messages of 6 words, a queue of 22; fairness | `TypeOK`, `OpensConfigured`, `Opens` | no word in the switch is ever wrong; the ports open only on a complete configuration, also when the queue overflows; the parser never loses step |
| `flow_map` | packets of 1 to 4 fragments of two flows and of none, with any choice of ICMP-like bytes; any fragment lost | `TypeOK`, `TagsRight`, `NoStrayFlow` | what earlier losses left in the four variables never spoils a whole packet; bodies without a head join no flow |
| `ptp` | a microsecond of 5 cycles in a digit of 8; skews -6 and 4; link delays 0 and 1; timers that restart every 2 cycles; up to 4 sync packets in 5 cycles, 2 packets under way per direction, lost at any time; a queue of 3 | `TypeOK`, `GuideIsSum`, `GuidesByOneCycle`, `SyncStep` | an offset measured on the clock as it is brings it to the master's; the guided sum and its sign are those of the offsets; the guiding adds one cycle, unless the stop was dropped |

**The races at the slots.**  `buf.c:16` names `buf_pool_mutex` the mutex of
the pool, yet every loop over the pool tests a slot before it locks and does not
test it again.  (1) `hx_free_buf` (`buf.c:254`): two threads that give a list back
find the same empty slot, and the second store overwrites the first list: its
buffers are lost for good.  (2) `hx_buf_list_get` (`buf.c:113`): two threads find the
same full slot, the second gets NULL with the count of a full list.  At start-up, where
`hx_init` runs in every new service thread and `main.c` starts them one right
after the other, the list is then missing from the start.  The count stays too
large by one list until the thread refills, so it gives half of its list back when it
has only `MAX_LIST_NUM` buffers; `ChainsLongEnough` shows that it never walks past the
end.  Both happen in the run `bufpool` (with `LostOnlyByOverwrite` cut to `Held
\subseteq Held'`, or `WrongCountOnlyAfterRace` without `lateGet`, TLC finds them
at once), and the two properties say that nothing else goes wrong: no count drifts by
frees, cuts or give-backs, and no list is dropped because its loop found no slot, which
`CutFindsSlot` proves for any number of threads.

**What `ptp` says of the code.**  `ts_compute` (`ptp.c:113`) halves the number
that stands for a time, not the time: an odd microsecond becomes 64 cycles in the low
digit, and the offset's digit may then be one that the clock never counts (125 and 126).
The clock that takes such an offset may be left with such a digit itself, and then
loses a microsecond.  `SyncStep` covers the offset with such a digit (the adder
comes out right, with an error within the rounding) and exempts the clock with one
(`Legal`).  From a clock with such a digit `ts_sub` may return exactly 2^48, a
negative zero, which the strict comparisons of `ts_compute` leave to their last branch;
the offset can then be as large as 2^48, the limit that `TypeOK` states.

`SyncStep` is about packets that no switch kept for more than a period of its timer
(`Counted`).  The error is then at most one cycle and a half of rounding and half the
difference of what the two directions do not count: the time on links, and the cycle that
`output_control.v:379` loses when the timer restarts.  A longer stay loses a period,
4 ms, and the run contains such packets.

A response's first two messages are its offset and the stop of the guiding, in this
order (`ptp.c:507-522`).  Between the two the switch may guide once by the whole offset; and
when the stop, or the one-cycle offset behind it, finds the queue full and the messages
around it do not, the clock is guided by the whole offset period after period.  `GuidesByOneCycle` says that these are the only ways, apart from the cycles in
which an offset is half written.  The period of the
guiding is cut to the 24 bits of its register (`PeriodReg`): the code computes
`ptp_period * 1000000 / 8` divided by the sum, which for a small sum and a long
period does not fit.  It is written while the counter runs, so a counter may already have
passed a new, shorter period and then counts to the end of its 24 bits.

Every property has a mutant of a modelled definition (a plausible bug of that
code) that violates it; `PROJECT.json` lists them.

**Bounds.**  Two ports are enough for the polling to interleave with an ack of
the other port, for multicast, and for two releases of one id to be served one
after the other; four ids give the FIFO two words, so it can be empty, have a
stored but not yet visible word, and be refilled.  (The refinement and the
liveness run use three ids.)  An output port with three ids has queues of length
0 to 3, every overlap of a link write with the read of the same word, and id 0,
which is also the null pointer.  `NumBufids = 4` there with ids 0..2 keeps the
source's relation of a count register that is wider than the ids at the port.
The counters of `MonitorsQuiet` have no bound: they stay 0.
The pool has 3 lists of 2 buffers (the source: `MAX_POOL_NUM` lists of
`MAX_LIST_NUM`): enough for a slot before and behind a thread's index, for the
give-back at `2 * ListNum`, and for two threads to meet at a slot.  Three threads, one
that only allocates, one that only frees and one that does both, hold six buffers:
two can give a list back while the third takes one.

The ring of `MsgQueue` wraps, is full and is empty in its runs, and the proofs cover every size.
In `MsgSchedule` queues of length one make every full-queue branch happen with two
packets, the buffers of one PTP, one timer and one configuration message compete
for the scheduler, and an `rc` packet can find `RC_queue` full.

A message of `LocalManage` holds 6 words where the source has 24: the lists of the
instance end before, at and behind the end of the first and the second message, and
the runs of the forward table are cut by gaps, by order and by the message's size.
The queue of 22 is too short for the longest files and long enough for the others.
`FlowMap` has no counter to bound: the state between two packets is one of finitely
many.  Two flows, one of them with reserved bandwidth, an entry that no packet hits
and a doubled ID are every case of the lookup; four fragments make a first, a last
and two inner bodies.  In `PtpSync` `MaxNow`, `MaxSync` and `NetCap` end every
behaviour: five cycles and four sync packets hold overlapping exchanges, the offsets
that follow and a guiding step, and take each clock over a microsecond; the
third response starts the guiding, the queue of 3 is too short for the four messages of one
response unless the switch takes some meanwhile, and a period of 2 cycles lets
timers restart and stays exceed it.  Digits, sign and
carries are proved for every size (section 5).

**Views.**  The MC modules give TLC a `VIEW` that hides registers whose value is
not read before it is written again (for example the address register of the
count RAM while its strobe is low).  Two states with the same view have the same
successors up to the view and satisfy the same properties; and every fair action
changes a register in the view (a reader cycle its state or channel, a writer
cycle its state or channel, the synchronizer the fill level, the end of a packet
`tx_pkt`), so the view does not turn a fair step into a stutter.  `CqfHold`
reads the history `slot_ids`, and its run has it in the view.

**Fairness.**  `bufids_live`: weak fairness of the two machines and of the
synchronizer: the clock never stops, and one of their steps is enabled in every
state.  Nothing is assumed of the ports: the properties are conditional on what
the ports did.  `port_live`: weak fairness of `Tick` (the clock) and of
`PacketEnds` (a packet has at most 2 KB, so its transmission ends).

`msgqueue`: the reader keeps calling read and both threads run; the writer need
not call.  `schedule_live`: every thread runs and SIGALRM keeps coming
(`TimerOut`); packets need not arrive.  `startup`: the loader's thread runs, and the
switch takes what the scheduler hands it.

Deadlock checking is on in every run but
`startup`, where nothing is left to do after the last message, and `ptp`, whose bounds
end every behaviour.

## 5. What is proved

`PktCentralizedBuffer_proofs`, for any number of ports (at least 2) and buffers
(more than ports), under the assumptions named in `FreeBufidFifo` and
`PktCentralizedBuffer`:

* `TypeCorrect`: `Spec => []TypeOK`;
* `AcksMatchOffers`: `Spec => []NoAckWhileWaiting`;
* `OffersHeld`: `Spec => OfferHeld` (an action property).

`TypeOK` alone is not inductive.  The word on the FIFO's output is an id only if
the read was made on a non-empty FIFO, and it is handed to the channel *before*
the polled one; so the invariant `Inv` adds `ReaderInv` (at most one FIFO read is
under way, it belongs to the channel before the polled one, that channel has no
offer and no latched ack, no port both has an offer and waits for one, an ack
implies an offer) and `PortInv` (a port waits for the forward table exactly when
it has an id).  `NextInv` has one step per action of `Next`; the machine cycles
have lemmas of their own.  `OfferHeldStep` uses that the channel that takes the
fetched word has no offer.

The same module, under the same assumptions:

* `OneOwnerAlways`: `Spec => []OneOwner`;
* `CountsRight`: `Spec => []CountIsCopies`;
* `MonitorsStayQuiet`: `Spec => []MonitorsQuiet`;
* `BufferRefinesPool`: `Spec => ImplementsPool`.

The first three hold together or not at all: an id is stored at the right time only if
the count is right, the count is right only if nobody else uses the id, and that
needs the FIFO to hold no id twice.  The invariant `OwnerInv` therefore says, on
top of `Inv`: every id is in exactly one *place* (reset store, FIFO, read
register, offer, received packet, copies, store register); within a place it is
there once (`FifoDistinct`, `OffersDistinct`, `ReceivedDistinct`); a port has a
copy for one reason (`CopyOnce`: it has to send it, or asked for its release, or
is in service); the registers of `address_write` hold in each state what the
next state relies on (`WriterInv`: the count read two cycles ago is still the
number of copies, because a release of the same id waits for the machine and
the forward table never writes the count of an id that has copies); the
monitor's record is the FIFO's content.  `FifoRoom` is a pigeonhole argument: a
FIFO of distinct ids has room for any id that is outside it, so the `~Full`
guards of the source never stop a store.  Each action has a lemma; `WriterFrame`,
`ReaderFrame` and `PortFrame` carry what the other actors' steps leave alone.

For the refinement `FreeIsUnused` turns the refinement mapping's free set into "not received and
without copies"; then `TakeBufid`, `ForwardDescriptor` and `DecrementOrFree` are
the three steps of the pool and every other step is a stutter.

`NetworkOutputPort_proofs`, for any number of ids and queues (at least two), any words
in the gate list, and, where nothing else is said, a mode register that may change in
any cycle:

* `TypeCorrect`: `Spec => []TypeOK`;
* `PointersCorrect`: `Spec => []IInv`, the inductive invariant;
* `QueuesImplemented`: `Spec => ImplementsQueues`;
* `AccountedInvariant`: `Spec => []Accounted`, when one mode is configured (`Modes = {m}`;
  section 6 says what a change of the mode does to a packet);
* `CyclicQueuing`: `Spec => CqfHold`, when that mode is qch and the types 0 and 1 are
  time-sensitive (so they are in the source; another packet that is sent to queue 0 or 1 does
  not follow the input gates).

What has to be shown is that registers which describe a list in different cycles
describe one list.  `Linked` is what a reader would find who followed the memory from the head
with the write under way taken into account.  `IInv` says: the read of a word is in one
stage at a time and ends before the next pick (`Handshake`); the tail register is the last
id of `Linked` (`Tails`); the write under way starts a queue that the delayed flag still calls
empty, or goes to an id of its own queue, or to the id that was sent a cycle ago (`Writes`:
the case of the delayed bypass); the word being read is what the memory holds, and the head
it was read at has not moved (`Reads`); all ids of all queues and of the transmitter are
different (`Ownership`).  None of these is inductive without the others.  `HeadAfterIs`
says that the bypasses of `virtual_queue_manage` give the head that they should, and
`LinkedAfter`, the centre of the proof, that a cycle with any overlap of arrival, link
write, read and departure turns the lists into those that arrival and departure alone would make.
Refinement and ownership follow from it; `CountBound` (a pigeonhole argument) keeps the
count from wrapping.  `CqfHold` needs `Slots`: the queue whose input gate is open is not
the one whose output gate is, and the head that was picked in the cycle in which a slot
ends arrived before that slot.

`Linked` is defined by recursion over the positions of the list.  The induction over
them is carried by `Smallest` (a non-empty set of naturals has a least element, from the library's
theorem on well-founded relations): two lists that differ have a first position where they do.

`BufPool_proofs`, for any number of threads, lists and slots, any choice of who
allocates and frees, and any interleaving (`PoolAssumption` is the only assumption):

* `NeverShared`: `Spec => []NothingShared`;
* `TypeCorrect`: `Spec => []TypeOK`;
* `ChainsStayLong`: `Spec => []ChainsLongEnough`;
* `SlotsStayWhole`: `Spec => []SlotsWhole`;
* `CountsWrongOnlyAfterRace`: `Spec => []WrongCountOnlyAfterRace`;
* `LostOnlyInOneSlot`: `Spec => LostOnlyByOverwrite`;
* `CutFindsSlot`: `Spec => []SlotForEveryCut`: the loop that gives a list back has an
  empty slot at or behind its index.

`NothingShared` is inductive with the shapes of the variables (`IndInv`), and the proof
says why the unlocked tests cannot duplicate a buffer: a critical section moves what the
slot holds *now*, in one step, and a store removes the list from its thread in the step in
which the slot gets it.  `Shrink` is the fact most steps use (places that only
lose buffers stay disjoint); each group of steps has a lemma.

The tests can lose a list but not a part of one: what a slot gets is a whole
list or nothing, and a count is set together with its list (`Lengths`).  `Tests` says
what a thread between its test and its critical section may rely on: the slot it found
full is still full unless the thread is in `lateGet`, and the slot it found empty is still empty
unless it is in `latePut`.

`Frontier` is the argument for `CutFindsSlot`.  For each index k, the full slots from k on
and the threads that give a list back with an index of at least k are together at most
`PoolNum - k`.  At k = 0 this holds because all those lists are different buffers of a pool of `PoolNum`
lists.  A test that finds a slot full moves a thread past it, and a store fills a slot that its thread
had counted; so a thread at k excludes that all slots from k on are full.  A store into
a slot that is full already only makes the sum smaller: that is where a list is lost.

`MsgQueue_proofs`, for a ring of any size (at least two nodes) and any messages:

* `RingTyped`: `Spec => []TypeOK`;
* `WindowHoldsTheMessages`: `Spec => []NullOutsideWindow`;
* `QueueRefinesChannel`: `Spec => ImplementsChannel`.

Inductive is that the nodes from `front` up to `rear` hold messages and the rest
`NULL`, except for the one node the writer has stored to but not passed and the one the
reader has cleared but not passed.  The refinement maps the window to the abstract
sequence; storing and clearing are stutters, and moving `rear` or `front` appends
or takes a message.

`MsgSchedule_proofs`, for any capacities, any number of buffers, any packets:

* `TypeCorrect`: `Spec => []TypeOK`;
* `MessagesHandledOnce`: `Spec => []HandledOnce`;
* `NoneForgotten`: `Spec => NothingForgotten`;
* `FlowsInOrder`: `Spec => FlowOrder`.

The proof is about *places*: a queue, a hand, or `free`.  `Home` says that no
queue holds a message twice and that no two places hold the same one; every action
is a sequence of at most a few *moves* from one place to another, and a move is
proved once for each kind of source and destination (`FreeToTx`, `HandToRx`, ...).
`NothingForgotten` needs more: the error path of `hx_msg_schedule` frees a message
only if `hit_flag` is still zero, which it is only in a fresh pass.  `Routed` and
`FreshHit` say why this is enough: the only service whose messages the table may not
know is the first one of a pass, where `hit_flag` is still zero.

`FlowOrder` is about stages.  `OnWays` says where a message of each kind can be, by its
source and type; `schedule_table` enters there, and so does the fact that a message out
of `RC_queue` has another source than one that has yet to enter it.  Its place is then
one of ten stages, from the queue of the service that received it to the hand of
`data_response_thread`, and messages of one kind at one stage are in one place
(`Stages`, `SameStage`).  The invariant is `Ordered`: what was received before a message
and is still there is at a later stage, or before it in the same queue.  Every action is
one of three: a message comes in behind all of its kind (`WriteNewOrder`), some
leave (`LeftOrder`), or the first of a queue becomes the last of the next one
(`OrderStep`, with `Passes` and `Proceeds`).  At the last stage nothing is further.

`LocalManage_proofs`, for any set of files and any queue, under `LoaderAssumption`: the
lists and words are of the types the structs give them, the gate lists have one depth that is
neither a multiple of `Batch` nor one less, at most 9 ports (the page behind the ninth is that
of the forward table), a full message of at least 2 words:

* `TypeCorrect`: `Spec => []TypeOK`;
* `OpensAsConfigured`: `Spec => []OpensConfigured`;
* `OpensUnlessFull`: when the messages are through, the ports are open if and only if none
  of them found the queue full, the safety half of `Opens`;
* `ParserStaysInStep`: the parser of the switch never takes a packet for the rest of another.

The invariant `LocalManageInv` has a half for the file and a half for the queue.
`ReadInv` says that while the file is read the parser is at a line of a section, that
`flow_flag` is what the lines before it make it, and that the chip holds what they say,
whatever the order of the sections; at the end of the file it holds all of it (`Loaded`).
From there each call's messages are known.  A lemma per call (`ForwardSends`,
`GatesSend`, `RegisterSends`, `SlotSends`, `FinishSends`) says that every message has a count
its packet holds and puts only words of the file at their addresses, and that together they
cover all addresses of the call.  For the forward table, which may name an id twice, it
also says that the messages are in the order of the list, so the last entry wins.

`QueueInv` follows the messages.  `QueueRight` and `TableRight` say that every word under way
or written is one of the file's.  `Complete` says that, unless a message was dropped, an address
a finished call has sent is in the table or in the queue, and `ForwardHeld` that a later write
of the last entry of its id is not overtaken.  The heart is the full queue: nobody
reads it before the loader pauses (`FullQueue`), so a dropped message drops all behind
it, `cfg_finish` last of all, and the switch stays shut (`Shut`); if nothing was
dropped `cfg_finish` is the last message (`FinishLast`).  So when the ports are open nothing was
dropped, nothing is under way, and `Complete` says that the table has every word.
`EndQueued` adds the converse: while nothing was dropped the last message is `cfg_finish`
with its 3, and behind it the table has that word.

`FlowMap_proofs`, for any table and any packets that `MapAssumption` admits:

* `TypeCorrect`: `Spec => []TypeOK`;
* `FragmentsTagged`: `Spec => []TagsRight`;
* `StrayBodies`: `Spec => []NoStrayFlow`.

The invariant describes the four variables where they matter: while the packet has
arrived without a gap, they are the number of its fragments, the bytes so far, its
flow and its length (`AtNext`); at its end they are cleared (`AtEnd`); behind a whole
packet without a head of the next there is no flow (`NoFlow`, `NoHead`).  The sum is
kept modulo 2^16; a packet's bytes fit, and stray bodies may wrap it.

`PtpSync_proofs`, for digits and words of any size that `TimeAssumption` admits (the
125 and 128, 2^48 and 2^64 of the code among them):

* `GuidedSum`: `Spec => []GuideIsSum`;
* `GuidedByOneCycle`: `Spec => []GuidesByOneCycle`;
* `OffsetSynchronizes`: `Spec /\ []InRange => SyncStep` when `Digit - Low <= 3`;
* `TypeCorrect`: `Spec /\ []InRange => []TypeOK` when `Digit - Low <= 3`;
* `TransIsTime`, `AddIsSum`, `SubIsDifference`: what `corr_trans`, `ts_add` and
  `ts_sub` compute is the conversion, the sum and the signed difference, in cycles;
* `TickCounts`, `OffsetAdded`, `OffsetTakenOff`: the adder of the clock moves it by
  one cycle, by one cycle and an offset, by one cycle less an offset.

`GuidedSum` needs the types of the messages under way, and that nothing has been
guided before the third response (`NotYetGuided`).  The arithmetic theorems rest on
the uniqueness of the two digits (`DivMod`, `Parts`, `Split`).

`OffsetSynchronizes` has two hypotheses.  `InRange` says that both clocks stay below a
quarter of the 48 bits (six days) and the master's has counted three cycles: the sign is the
48th bit, so larger differences have no sign to be told by, and an offset must not
take the clock below zero.  Every state of the run `ptp` satisfies it (TLC).  A digit may hold
three cycles more than it counts (the code: 128 and 125): half a time is taken as half its
number, which is wrong by that difference at an odd microsecond.  The inductive
invariant `TimesOK` says what each stamp is worth, wherever it is: in a packet, in
`Local_ts_info`, in a queued message, in the register.  A stamp is `Fresh` while the
slave's clock has only counted since; then the times of a sync packet differ by the lead
of the slave's clock plus what the corrections miss (`Uncounted`: a time on links, and a
cycle for a timer that restarted; `DelayOK`), a response holds such a time less
that lead (`DownOK`), and the offset made of both is half of what is left (`Brings`).
`CorrCounts` says what two timers of any period make of a stay that neither switch
stretches beyond its period; a packet kept longer is marked -1 and fresh for nobody.
A cycle that only counts leaves the lead alone and one that steps the clock ends
the freshness (`TickKeeps`), so lost packets and overlapping exchanges need no case of
their own: a response whose stamp is not that of `Local_ts_info` is fresh for nobody.
The last cycle is `OffsetAdded` or `OffsetTakenOff` (`OffsetApplied`).

`TypeCorrect` has the same two hypotheses, since an offset has no room for its sign in a
register of 48 bits else.  An offset may be half of times stamped before and after a step of
the clock, or of two exchanges that overlap; such a time need not be of legal digits, and
`SizeBound` says that even then `ts_sub` does not exceed the larger of two times.
`HalfWritten` is the bound of a register that holds half of an old and half of a new offset.
It says nothing of the counter against its period: separate writes, each dropped on
its own, and a period set while the counter runs let the counter pass it (section 4).

`GuidedByOneCycle` needs neither hypothesis.  Its invariant `GuideOK` is about the order of
the messages in `txq \o pending`: while none was dropped, a stop stands behind every whole
offset and an offset of one cycle or none before every period that is not a stop
(`Follows`).  Writing, queueing and taking a message all keep this order (`QueueGrows`,
`TailFollows`, `ConcatFollows`).  The run reaches the guiding by one cycle and, behind a dropped stop,
that by a whole offset; a whole offset that comes while a period of the guiding is set, with
nothing dropped, is beyond its five cycles, and is the theorem's.

Only model-checked is all liveness, `Opens` among it (fairness and ENABLED are out of
the prover's reach).  Every invariant that a run checks is stated by a theorem.
Neither run nor proved are the types of `PtpSync` beyond `InRange`, where
they do not hold for every clock.

## 6. Not modelled, and known gaps

`PROJECT.json` lists every component with its status and every hazard with the
property that covers it or the reason why none does.  In short: data layout
(parsing, report frames, GMII bytes), vendor IP and build files, open-planner
(no state), and the planned parts below.  In `PktCentralizedBuffer` an output
port may finish its packets in any order: the order is `NetworkOutputPort`'s
subject.  The ports with no engine in this build (4 to 7) get an id at reset
and keep it; `Wired` says which ports act.

In `MsgSchedule` a service that needs a buffer waits until one of its own is free.
The code does not wait: `timer_out_handler` and `build_offset_pkt` use the result of
the allocation without a test for NULL.  That needs an empty pool, for example after
many packets were forgotten at a full `RC_queue`, and is listed as a hazard.

The runs of the output port keep the mode register constant.  The module lets it
change: there is then a cycle in which the register already says qch and the input
gates still have the qbv value, and a time-sensitive packet that arrives in it is put
into no queue (`network_input_queue.v:586`) and its id stays unreleased.  The proofs
cover this case: the lists stay right and in order (`PointersCorrect`, `QueuesImplemented`),
only `Accounted` needs the constant mode.  No document states that the mode may
change under traffic.

In `BufPool` `hx_free_buf_list` and `hx_buf_pool_destroy` are left out: their calls (in
`lib/quene.c`, `lib/schedule.c` and `main.c`) stand behind endless loops.  The signal handler of
the timer, which allocates, and `build_offset_pkt`, which allocates from another thread's
list, are hazards that it does not cover.

A gate list of which nothing or 23 words are left for the last message
(`local_mange.c:1091`) is excluded by `LoaderAssumption`: a depth that is a power of two, as
`local_mange.h:155-157` has it, leaves neither.

In `PtpSync` `delay_resp_handler` (`ptp.c:619-640`) is left out: `recoup_flag` is 1
and nothing changes it, so the service always takes `delay_resp_handler_1`.  The
reading of `ptp_cfg` is left out too; its values are the constants.  A drift between the two
clocks is not modelled, so nothing is said of how well the guiding follows one.

What the switch does with a word of `LocalManage` ends at its table: `forward`, gate
and injection tables are inputs of the other models, which take any content.

## 7. Plan

Order: most shared state first.

1. (done) `PktCentralizedBuffer`: the owner of an id. `BufferPool` abstract.
2. (done) `NetworkOutputPort`: the order of packets. `ClassQueues` abstract.
3. (done) `BufPool`: TSNLight's pool, with threads.  (done) `MsgQueue` and
   `MsgSchedule`: the rings at statement granularity, the scheduler and the
   services; abstract: a FIFO channel, a message has one home and is freed once.
4. (done) `LocalManage`: the start of a node.  `FlowMap`: the tags of a packet's
   fragments.  `PtpTime` and `PtpSync`: mixed-radix arithmetic against integers, the
   exchange, the clock.  To do: `TimerService` (signal handler against threads).
5. `NetworkInput` with `PacketMemory` (slots of `pkt_write`/`pkt_read`, skid
   registers, discard), `PacketTx` (word reads, release timing): together they
   discharge the two timing guards of section 3.
6. `ForwardLookup` (pipeline, time slots of the ports), `HostQueues`,
   `TsInjection`, `TsSubmit`, `TimeSlots`, `AsyncFifo` (gray pointers).
7. (done) Proofs of `OneOwner`, `CountIsCopies`, `MonitorsQuiet` and the
   refinement of `BufferPool`; of `HandledOnce`, `NothingForgotten` and `FlowOrder`
   in `MsgSchedule`; of the pool, the ring, the flow map, the
   arithmetic of times and `SyncStep`.
8. (done) Proofs of the output port: types, lists, refinement of `ClassQueues`, `CqfHold`.
9. (done) Proofs of the start of a node: types, `OpensConfigured`, where it opens; of
   the widths of `PtpSync` and of what its clock is guided by.
