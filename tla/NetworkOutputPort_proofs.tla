---------------------- MODULE NetworkOutputPort_proofs ----------------------
(***************************************************************************)
(* The output port, for any number of ids and queues: the linked lists in  *)
(* the queue memory are right although heads, tails, words and empty flags *)
(* are read and written in different cycles; they implement first-in       *)
(* first-out queues, lose no id, and hold a packet back under qch.         *)
(***************************************************************************)
EXTENDS NetworkOutputPort, WellFoundedInduction, SequenceTheorems, FiniteSetTheorems, TLAPS

-----------------------------------------------------------------------------
(***************************************************************************)
(* Chains of ids.  Linked is defined by recursion; these lemmas give its   *)
(* equation.                                                               *)
(***************************************************************************)

(* A non-empty set of naturals has a least element.  It carries the        *)
(* inductions over positions of a list below: the first position at which  *)
(* two lists differ, the first length for which there is none.             *)
LEMMA Smallest ==
  ASSUME NEW T, T \subseteq Nat, T # {}
  PROVE  \E n \in T : \A m \in T : n <= m
<1> DEFINE R == OpToRel(<, Nat)
<1>1. IsWellFoundedOn(R, Nat)
  BY NatLessThanWellFounded
<1>2. \A m, n \in Nat : m < n => <<m, n>> \in R
  BY DEF OpToRel
<1> HIDE DEF R
<1>3. \E n \in T : \A m \in T : <<m, n>> \notin R
  BY <1>1, WFMin
<1>4. PICK n \in T : \A m \in T : <<m, n>> \notin R
  BY <1>3
<1>5. ASSUME NEW m \in T
      PROVE  n <= m
  <2>1. n \in Nat /\ m \in Nat
    OBVIOUS
  <2>2. ~(m < n)
    BY <2>1, <1>2, <1>4
  <2> QED BY <2>1, <2>2
<1> QED BY <1>5

(* s is the chain of n ids that starts at h and follows the memory ram,    *)
(* with the write of d to wa (for queue o) under way: what Linked defines  *)
(* by recursion.                                                           *)
Chain(n, h, o, none, wa, d, ram, s) ==
  s = [i \in 1 .. n |->
         IF i = 1 THEN h ELSE IF o # none /\ wa = s[i - 1] THEN d ELSE ram[s[i - 1]]]

(* There is one chain of a length: two that differ have a first position at*)
(* which they do, and the position before it gives both the same id.       *)
LEMMA ChainUnique ==
  ASSUME NEW n \in Nat, NEW h, NEW o, NEW none, NEW wa, NEW d, NEW ram, NEW s, NEW t,
         Chain(n, h, o, none, wa, d, ram, s), Chain(n, h, o, none, wa, d, ram, t)
  PROVE  s = t
<1> USE DEF Chain
<1> DEFINE D == {i \in 1 .. n : s[i] # t[i]}
<1>1. CASE D = {}
  <2>1. \A i \in 1 .. n : s[i] = t[i]
    BY <1>1
  <2> QED BY <2>1
<1>2. CASE D # {}
  <2>1. PICK i \in D : \A j \in D : i <= j
    <3>1. D \subseteq Nat
      OBVIOUS
    <3> HIDE DEF D
    <3> QED BY <3>1, <1>2, Smallest
  <2>2. CASE i = 1
    BY <2>2, <2>1
  <2>3. CASE i # 1
    <3>1. i - 1 \in 1 .. n /\ i - 1 \notin D
      BY <2>3, <2>1
    <3>2. s[i - 1] = t[i - 1]
      BY <3>1
    <3>3. s[i] = IF o # none /\ wa = s[i-1] THEN d ELSE ram[s[i-1]]
      BY <2>3
    <3>4. t[i] = IF o # none /\ wa = t[i-1] THEN d ELSE ram[t[i-1]]
      BY <2>3
    <3> QED BY <3>2, <3>3, <3>4, <2>1
  <2> QED BY <2>2, <2>3
<1> QED BY <1>1, <1>2

(* There is a chain of every length: the shortest length without one would *)
(* extend the chain that is one id shorter.                                *)
LEMMA ChainExists ==
  ASSUME NEW n \in Nat, NEW h, NEW o, NEW none, NEW wa, NEW d, NEW ram
  PROVE  \E s : Chain(n, h, o, none, wa, d, ram, s)
<1> DEFINE P(k) == \E s : Chain(k, h, o, none, wa, d, ram, s)
           D == {k \in Nat : ~P(k)}
<1>1. P(0)
  <2>1. Chain(0, h, o, none, wa, d, ram, [i \in {} |-> h])
    BY DEF Chain
  <2> QED BY <2>1
<1>2. ASSUME NEW k \in Nat, P(k)
      PROVE  P(k + 1)
  <2>1. PICK s : Chain(k, h, o, none, wa, d, ram, s)
    BY <1>2
  <2> DEFINE x == IF k = 0 THEN h
                  ELSE IF o # none /\ wa = s[k] THEN d ELSE ram[s[k]]
             t == [i \in 1 .. k + 1 |-> IF i = k + 1 THEN x ELSE s[i]]
  <2>2. \A i \in 1 .. k : t[i] = s[i]
    OBVIOUS
  <2>3. t[k + 1] = x
    OBVIOUS
  <2>4. \A i \in 1 .. k : s[i] = IF i = 1 THEN h
             ELSE IF o # none /\ wa = s[i - 1] THEN d ELSE ram[s[i - 1]]
    BY <2>1 DEF Chain
  <2>5. ASSUME NEW i \in 1 .. k + 1
        PROVE  t[i] = IF i = 1 THEN h
             ELSE IF o # none /\ wa = t[i - 1] THEN d ELSE ram[t[i - 1]]
    <3> HIDE DEF t
    <3>1. CASE i = k + 1
      <4>1. CASE k = 0
        BY <3>1, <4>1, <2>3
      <4>2. CASE k # 0
        <5>1. k \in 1 .. k /\ i - 1 = k /\ i # 1
          BY <3>1, <4>2
        <5>2. t[i - 1] = s[k]
          BY <5>1, <2>2
        <5> QED BY <3>1, <4>2, <5>1, <5>2, <2>3
      <4> QED BY <4>1, <4>2
    <3>2. CASE i # k + 1
      <4>1. i \in 1 .. k /\ (i # 1 => i - 1 \in 1 .. k)
        BY <3>2
      <4> QED BY <4>1, <2>2, <2>4
    <3> QED BY <3>1, <3>2
  <2>6. Chain(k + 1, h, o, none, wa, d, ram, t)
    BY <2>5 DEF Chain
  <2> QED BY <2>6
<1>3. CASE D # {}
  <2>1. PICK k \in D : \A j \in D : k <= j
    <3>1. D \subseteq Nat
      OBVIOUS
    <3> HIDE DEF D
    <3> QED BY <3>1, <1>3, Smallest
  <2>2. k # 0
    BY <2>1, <1>1
  <2>3. k - 1 \in Nat /\ k - 1 \notin D
    BY <2>1, <2>2
  <2>4. P(k - 1)
    BY <2>3
  <2>5. P((k - 1) + 1)
    <3> HIDE DEF P
    <3> QED BY <2>3, <2>4, <1>2
  <2>6. (k - 1) + 1 = k
    BY <2>1
  <2> QED BY <2>1, <2>5, <2>6
<1> QED BY <1>3

(* The ids of a chain are what the memory holds.                           *)
LEMMA ChainType ==
  ASSUME NEW n \in Nat, NEW S, NEW h \in S, NEW o, NEW none, NEW wa, NEW d \in S,
         NEW ram \in [S -> S], NEW s, Chain(n, h, o, none, wa, d, ram, s)
  PROVE  s \in Seq(S) /\ Len(s) = n
<1> DEFINE D == {i \in 1 .. n : s[i] \notin S}
<1>0. \A i \in 1 .. n : s[i] = IF i = 1 THEN h
             ELSE IF o # none /\ wa = s[i - 1] THEN d ELSE ram[s[i - 1]]
  BY DEF Chain
<1>1. CASE D # {}
  <2>1. PICK i \in D : \A j \in D : i <= j
    <3>1. D \subseteq Nat
      OBVIOUS
    <3> HIDE DEF D
    <3> QED BY <3>1, <1>1, Smallest
  <2>2. i # 1
    BY <2>1, <1>0
  <2>3. i - 1 \in 1 .. n /\ i - 1 \notin D
    BY <2>2, <2>1
  <2>4. s[i - 1] \in S
    BY <2>3
  <2>5. s[i] \in S
    BY <2>4, <2>2, <1>0
  <2> QED BY <2>1, <2>5
<1>2. CASE D = {}
  <2>1. \A i \in 1 .. n : s[i] \in S
    BY <1>2
  <2>2. s \in [1 .. n -> S]
    BY <2>1 DEF Chain
  <2> QED BY <2>2
<1> QED BY <1>1, <1>2

-----------------------------------------------------------------------------
(***************************************************************************)
(* Types.                                                                  *)
(***************************************************************************)

(* What the assumptions say of the constants.                              *)
LEMMA ConstantFacts ==
  /\ NumBufids \in Nat /\ NumBufids > 0 /\ NumQueues \in Nat /\ NumQueues >= 2
  /\ PortIds \subseteq Bufids /\ NoBufid \notin Bufids /\ NoQueue \notin Queues
  /\ 0 \in Bufids /\ 0 \in Queues /\ 1 \in Queues
<1>1. NumBufids # 0
  <2>1. NumBufids = 0 => Bufids = {}
    BY DEF Bufids
  <2> QED BY <2>1, PortIdsAssumption
<1>2. NumBufids \in Nat /\ NumBufids > 0 /\ NumQueues \in Nat /\ NumQueues >= 2
  BY <1>1, NumBufidsAssumption, QueuesAssumption
<1>3. NoBufid \notin Bufids /\ NoQueue \notin Queues
      /\ 0 \in Bufids /\ 0 \in Queues /\ 1 \in Queues
  BY <1>2 DEF Bufids, Queues, NoBufid, NoQueue
<1> QED BY <1>2, <1>3, PortIdsAssumption

(* A step of the port is one cycle of all blocks; without an arrival the id*)
(* is NoBufid.                                                             *)
LEMMA TickIsCycle ==
  ASSUME Tick
  PROVE  \E id \in PortIds \cup {NoBufid}, type \in Queues : Cycle(id, type)
BY ConstantFacts DEF Tick

(* After reset every register has its type.                                *)
LEMMA InitType == Init => TypeOK
<1> SUFFICES ASSUME Init PROVE TypeOK
  OBVIOUS
<1> USE ConstantFacts DEF Init
<1>1. NiqTypeOK
  BY DEF NiqInit, NiqTypeOK, Bufids
<1>2. GateTypeOK
  BY DEF GateInit, GateTypeOK
<1>3. ScheduleTypeOK
  BY DEF ScheduleInit, ScheduleTypeOK
<1> QED BY <1>1, <1>2, <1>3 DEF TypeOK

(* An arriving packet gets a queue or none.                                *)
LEMMA SelectedQueueType ==
  ASSUME NEW type \in Queues, NEW qch, NEW g
  PROVE  SelectedQueue(type, qch, g) \in Queues \cup {NoQueue}
BY ConstantFacts DEF SelectedQueue

(* The strobe of virtual_queue_manage shows an id and its queue, or        *)
(* neither.                                                                *)
LEMMA SentType ==
  ASSUME TypeOK
  PROVE  SentId \in Bufids \cup {NoBufid} /\ SentQueue \in Queues \cup {NoQueue}
BY DEF TypeOK, ScheduleTypeOK, SentId, SentQueue

(* A cycle keeps the types.                                                *)
LEMMA CycleType ==
  ASSUME TypeOK, NEW id \in PortIds \cup {NoBufid}, NEW type \in Queues, Cycle(id, type)
  PROVE  TypeOK'
<1> USE ConstantFacts
<1>1. NiqTypeOK'
  <2> USE DEF TypeOK, NiqTypeOK, Cycle, InputQueueCycle
  <2>1. rv_queue' \in Queues \cup {NoQueue} /\ rv_bufid_cache' \in Bufids
    BY SelectedQueueType DEF SelectQueue
  <2>2. rv_queue_count' \in [Queues -> 0 .. NumBufids - 1]
    <3>1. ASSUME NEW q \in Queues, NEW left
          PROVE  CountAfter(q, left) \in 0 .. NumBufids - 1
      <4>1. rv_queue_count[q] \in 0 .. NumBufids - 1
        OBVIOUS
      <4>2. \A n \in Nat : n % NumBufids \in 0 .. NumBufids - 1
        OBVIOUS
      <4>3. rv_queue_count[q] + 1 \in Nat /\ rv_queue_count[q] + NumBufids - 1 \in Nat
        BY <4>1
      <4> QED BY <4>1, <4>2, <4>3 DEF CountAfter
    <3> QED BY <3>1 DEF CountIds
  <2>3. CASE rv_queue = NoQueue
    BY <2>1, <2>2, <2>3 DEF WriteLink
  <2>4. CASE rv_queue # NoQueue
    <3>1. LinkAddress(rv_queue) \in Bufids /\ LinkData(rv_queue) \in Bufids
      BY <2>4 DEF LinkAddress, LinkData
    <3> QED BY <2>1, <2>2, <2>4, <3>1 DEF WriteLink
  <2> QED BY <2>3, <2>4
<1>2. GateTypeOK'
  <2> USE DEF TypeOK, GateTypeOK, Cycle, GateCycle
  <2>1. in_gate' \in SUBSET {0, 1}
    <3>1. iv_time_slot \in {0, 1}
      OBVIOUS
    <3> QED BY <3>1 DEF InGate
  <2>2. out_gate' \in SUBSET Queues /\ gc_state' \in {"IDLE_S", "WITE1_S", "WITE2_S", "GATE_S"}
    BY GateVectorsAssumption DEF OutGateCycle, QchOutGate
  <2>3. iv_time_slot' \in {0, 1} /\ i_time_slot_switch' \in BOOLEAN
    BY DEF TimeSlot
  <2> QED BY <2>1, <2>2, <2>3
<1>3. ScheduleTypeOK'
  <2> USE DEF TypeOK, NiqTypeOK, ScheduleTypeOK, Cycle, OutputScheduleCycle
  <2>1. ov_osc_state' \in {"IDLE_S", "ACK_S"} /\ ov_schdule_queue' \in Queues
        /\ o_schdule_queue_wr' \in BOOLEAN
    BY DEF PickQueue
  <2>2. queue_ram' \in [Bufids -> Bufids] /\ r_ram_rdata' \in Bufids
    BY DEF QueueMemory
  <2>3. nqm_state' \in {"IDLE_S", "READ_S", "WAIT0_S", "WAIT1_S"} /\ ov_queue_rdata' \in Bufids
        /\ o_queue_rdata_valid' \in BOOLEAN
    BY DEF ReadWord
  <2>4. \A q \in Queues : HeadAfter(q) \in Bufids
    BY DEF HeadAfter
  <2>5. rv_queue_first_addr' \in [Queues -> Bufids] /\ rv_empty_delay' \in SUBSET Queues
        /\ rv_pkt_bufid_delay' \in Bufids \cup {NoBufid} /\ o_queue_rd' \in BOOLEAN
        /\ ov_queue_raddr' \in Bufids
    BY <2>4, SentType DEF VirtualQueues
  <2> QED BY <2>1, <2>2, <2>3, <2>5
<1>4. tx_cache' \in Bufids \cup {NoBufid} /\ tx_pkt' \in Bufids \cup {NoBufid}
      /\ o_pkt_bufid_ack' \in BOOLEAN
  BY SentType
     DEF TypeOK, Cycle, NetworkTx, CacheId, StartPacket, SendPacket, EndPacket
<1>5. owned' \in SUBSET PortIds /\ slot_ids' \in SUBSET PortIds
  BY DEF TypeOK, Cycle, History
<1> QED BY <1>1, <1>2, <1>3, <1>4, <1>5 DEF TypeOK, Cycle

(* So does every step.                                                     *)
LEMMA NextType == TypeOK /\ [Tick]_portVars => TypeOK'
<1> SUFFICES ASSUME TypeOK, [Tick]_portVars PROVE TypeOK'
  OBVIOUS
<1>1. CASE Tick
  BY <1>1, TickIsCycle, CycleType
<1>2. CASE UNCHANGED portVars
  BY <1>2 DEF portVars, niqVars, gateVars, oscVars, vqmVars, nqmVars, txVars,
              TypeOK, NiqTypeOK, GateTypeOK, ScheduleTypeOK
<1> QED BY <1>1, <1>2

(* For any number of ids and queues, any gate list and any modes, every    *)
(* register of the output port keeps its range: the nine-bit counts and    *)
(* addresses never show an id or a queue that does not exist.              *)
THEOREM TypeCorrect == Spec => []TypeOK
BY InitType, NextType, PTL DEF Spec

-----------------------------------------------------------------------------
(***************************************************************************)
(* The invariant and its parts.                                            *)
(***************************************************************************)

(* s is the list of queue q.                                               *)
IsLinked(q, s) ==
  Chain(rv_queue_count[q], HeadNow(q), ov_queue_id, NoQueue, ov_queue_waddr,
        ov_queue_data, queue_ram, s)

(* To know the list of a queue it is enough to show that something is the  *)
(* chain from its head ...                                                 *)
LEMMA LinkedIs ==
  ASSUME NEW q \in Queues, rv_queue_count[q] \in Nat, NEW s, IsLinked(q, s)
  PROVE  Linked(q) = s
<1>1. IsLinked(q, Linked(q))
  BY DEF Linked, IsLinked, Chain, Word
<1> QED BY <1>1, ChainUnique DEF IsLinked

(* ... before a step and after it.                                         *)
LEMMA LinkedIsPrime ==
  ASSUME NEW q \in Queues, rv_queue_count'[q] \in Nat, NEW s, IsLinked(q, s)'
  PROVE  Linked(q)' = s
<1>1. IsLinked(q, Linked(q))'
  BY DEF Linked, IsLinked, Chain, Word
<1> QED BY <1>1, ChainUnique DEF IsLinked

(* A queue was picked and its head is not yet with the transmitter: the    *)
(* pick, the read request, the three cycles of the read, the valid word.   *)
Active == o_schdule_queue_wr \/ o_queue_rd \/ nqm_state # "IDLE_S" \/ o_queue_rdata_valid

(* The read of a word is in one stage at a time.                           *)
Stages ==
    /\ o_schdule_queue_wr => ~o_queue_rd /\ nqm_state = "IDLE_S" /\ ~o_queue_rdata_valid
    /\ o_queue_rd => nqm_state = "IDLE_S" /\ ~o_queue_rdata_valid
    /\ nqm_state # "IDLE_S" => ~o_queue_rdata_valid

(* output_schedule_control waits in ACK_S from the pick to the ack, so no  *)
(* second read starts, the transmitter's cache is empty while a read is    *)
(* under way, and the id sent in the cycle before is the one in the cache. *)
Handshake ==
    /\ Stages
    /\ Active => ov_osc_state = "ACK_S" /\ tx_cache = NoBufid
    /\ tx_cache # NoBufid => ov_osc_state = "ACK_S"
    /\ rv_pkt_bufid_delay # NoBufid => tx_cache = rv_pkt_bufid_delay
    /\ o_pkt_bufid_ack => tx_cache # NoBufid
    /\ tx_cache # NoBufid => (o_pkt_bufid_ack <=> tx_pkt = tx_cache)

(* The id a is in the list s.                                              *)
Holds(s, a) == \E i \in 1 .. Len(s) : s[i] = a

(* rv_last_addr is the last id of a queue that is linked.                  *)
Tails ==
    \A q \in Queues : rv_queue_count[q] > 0 => rv_last_addr[q] = Linked(q)[rv_queue_count[q]]

(* The link write under way: the first id of a queue sets its head in the  *)
(* cycle in which the delayed flag still says empty; any other write goes  *)
(* to an id of the queue, or to the id that just left it, and then its data*)
(* is the new head (the delayed bypass).                                   *)
Writes ==
    \A q \in Queues :
        /\ q \in rv_empty_delay /\ rv_queue_count[q] > 0 => ov_queue_id = q
        /\ ov_queue_id = q =>
              Holds(Linked(q), ov_queue_waddr) \/ ov_queue_waddr = rv_pkt_bufid_delay

(* The read under way: the picked queue holds a linked id, its head does   *)
(* not change until it is sent, and the word in the read registers is the  *)
(* one in the memory (WriteHit overtakes it otherwise).                    *)
Reads ==
    /\ Active => rv_queue_count[ov_schdule_queue] > 0 /\ ov_schdule_queue \notin rv_empty_delay
    /\ Active /\ ~o_schdule_queue_wr =>
          ov_queue_raddr = rv_queue_first_addr[ov_schdule_queue]
    /\ nqm_state \in {"WAIT0_S", "WAIT1_S"} => r_ram_rdata = queue_ram[ov_queue_raddr]
    /\ o_queue_rdata_valid => ov_queue_rdata = queue_ram[ov_queue_raddr]

(* No id is twice in a list, none is in two.                               *)
AllDistinct(c) ==
    \A q, r \in Queues : \A i \in 1 .. Len(c[q]), j \in 1 .. Len(c[r]) :
        c[q][i] = c[r][j] => q = r /\ i = j

(* The ids in the lists.                                                   *)
Elements(c) == UNION {{c[q][i] : i \in 1 .. Len(c[q])} : q \in Queues}

(* The contents of the queues.                                             *)
AllContents == [q \in Queues |-> Contents(q)]

(* An id is in one queue, once, or with the transmitter, and it belongs to *)
(* the port.                                                               *)
Ownership ==
    /\ AllDistinct(AllContents)
    /\ Elements(AllContents) \cap WithTx = {}
    /\ Elements(AllContents) \cup WithTx \subseteq owned

(* The inductive invariant.  No part of it is inductive alone: a list is   *)
(* right only if the head read for it was (Reads), the read only if no     *)
(* write is missed (Writes), a write only if its address is the tail       *)
(* (Tails), and a tail of one queue is no id of another only because ids   *)
(* are distinct (Ownership).                                               *)
IInv == Handshake /\ Tails /\ Writes /\ Reads /\ Ownership

(* No id of the port is lost.                                              *)
Complete == owned \subseteq Elements(AllContents) \cup WithTx

(* Under qch at most one input gate is open.                               *)
Gates == i_qbv_or_qch => in_gate \in {{}, {0}, {1}}

(* Under qch the queue that takes packets is the one that is not sent; a   *)
(* queue that is sent, and a head that was picked, hold no packet of this  *)
(* slot.                                                                   *)
Slots ==
    /\ gc_state = "IDLE_S"
    /\ \/ in_gate = {} /\ out_gate = {}
       \/ \E s \in {0, 1} : in_gate = {s} /\ out_gate = Queues \ {s}
    /\ \A s \in {0, 1} : in_gate = {s} =>
          \A i \in 1 .. Len(Contents(1 - s)) : Contents(1 - s)[i] \notin slot_ids
    /\ Active /\ ov_schdule_queue \in {0, 1} => Contents(ov_schdule_queue)[1] \notin slot_ids

-----------------------------------------------------------------------------
(***************************************************************************)
(* What the invariant says of lists, reads and writes.                     *)
(***************************************************************************)

(* A list has as many ids as rv_queue_count says, begins at the head and   *)
(* follows the memory.                                                     *)
LEMMA LinkedFacts ==
  ASSUME TypeOK, NEW q \in Queues
  PROVE  /\ rv_queue_count[q] \in 0 .. NumBufids - 1
         /\ Linked(q) \in Seq(Bufids) /\ Len(Linked(q)) = rv_queue_count[q]
         /\ HeadNow(q) \in Bufids
         /\ rv_queue_count[q] > 0 => Linked(q)[1] = HeadNow(q)
         /\ \A i \in 2 .. rv_queue_count[q] : Linked(q)[i] = Word(Linked(q)[i - 1])
<1> USE ConstantFacts
<1>1. rv_queue_count[q] \in 0 .. NumBufids - 1 /\ rv_queue_count[q] \in Nat
  BY DEF TypeOK, NiqTypeOK
<1>2. HeadNow(q) \in Bufids /\ ov_queue_data \in Bufids /\ queue_ram \in [Bufids -> Bufids]
  BY DEF TypeOK, NiqTypeOK, ScheduleTypeOK, HeadNow
<1>3. PICK s : IsLinked(q, s)
  BY <1>1, ChainExists DEF IsLinked
<1>4. IsLinked(q, Linked(q))
  BY <1>1, <1>3, LinkedIs
<1>5. Linked(q) \in Seq(Bufids) /\ Len(Linked(q)) = rv_queue_count[q]
  BY <1>1, <1>2, <1>4, ChainType DEF IsLinked
<1>6. \A i \in 1 .. rv_queue_count[q] :
        Linked(q)[i] = IF i = 1 THEN HeadNow(q) ELSE Word(Linked(q)[i - 1])
  BY <1>4 DEF IsLinked, Chain, Word
<1>7. rv_queue_count[q] > 0 => Linked(q)[1] = HeadNow(q)
  BY <1>1, <1>6
<1>8. \A i \in 2 .. rv_queue_count[q] : Linked(q)[i] = Word(Linked(q)[i - 1])
  BY <1>1, <1>6
<1> QED BY <1>1, <1>2, <1>5, <1>7, <1>8

(* The id in the first pipeline stage is the last one of its queue.        *)
LEMMA ContentsFacts ==
  ASSUME TypeOK, NEW q \in Queues
  PROVE  /\ Contents(q) \in Seq(Bufids)
         /\ Len(Contents(q)) = rv_queue_count[q] + (IF rv_queue = q THEN 1 ELSE 0)
         /\ \A i \in 1 .. rv_queue_count[q] : Contents(q)[i] = Linked(q)[i]
         /\ rv_queue = q => Contents(q)[rv_queue_count[q] + 1] = rv_bufid_cache
<1>1. rv_bufid_cache \in Bufids
  BY DEF TypeOK, NiqTypeOK
<1>2. rv_queue_count[q] \in Nat /\ Linked(q) \in Seq(Bufids) /\ Len(Linked(q)) = rv_queue_count[q]
  BY LinkedFacts, ConstantFacts
<1> HIDE DEF Contents
<1>3. CASE rv_queue = q
  <2>1. Contents(q) = Linked(q) \o <<rv_bufid_cache>>
    BY <1>3 DEF Contents
  <2> QED BY <1>1, <1>2, <1>3, <2>1
<1>4. CASE rv_queue # q
  <2>1. Contents(q) = Linked(q) \o <<>>
    BY <1>4 DEF Contents
  <2>2. Contents(q) = Linked(q)
    BY <2>1, <1>2
  <2> QED BY <1>2, <1>4, <2>2
<1> QED BY <1>3, <1>4

(* A cycle keeps the handshake.                                            *)
LEMMA HandshakeStep ==
  ASSUME TypeOK, Handshake, SentId \notin WithTx,
         NEW id, NEW type, Cycle(id, type)
  PROVE  Handshake'
<1> USE ConstantFacts DEF TypeOK, NiqTypeOK, ScheduleTypeOK, Cycle, OutputScheduleCycle
<1>1. SentId = NoBufid <=> ~o_queue_rdata_valid
  BY DEF SentId
<1>2. o_queue_rd' = o_schdule_queue_wr /\ rv_pkt_bufid_delay' = SentId
  BY DEF VirtualQueues
<1>3. Stages'
  BY <1>2 DEF Handshake, Stages, Active, PickQueue, ReadWord
<1>4. Active' => ov_osc_state' = "ACK_S" /\ tx_cache' = NoBufid
  BY <1>1, <1>2 DEF Handshake, Stages, Active, PickQueue, ReadWord, NetworkTx, CacheId
<1>5. tx_cache' # NoBufid => ov_osc_state' = "ACK_S"
  BY <1>1 DEF Handshake, Stages, Active, PickQueue, NetworkTx, CacheId
<1>6. rv_pkt_bufid_delay' # NoBufid => tx_cache' = rv_pkt_bufid_delay'
  BY <1>2 DEF NetworkTx, CacheId
<1>7. o_pkt_bufid_ack' => tx_cache' # NoBufid
  BY DEF Handshake, NetworkTx, CacheId, StartPacket, SendPacket, EndPacket
<1>8. tx_cache' # NoBufid => (o_pkt_bufid_ack' <=> tx_pkt' = tx_cache')
  <2>1. SentId # NoBufid => SentId # tx_pkt /\ tx_cache = NoBufid
    BY <1>1 DEF WithTx, Handshake, Active
  <2> QED
    BY <2>1 DEF Handshake, NetworkTx, CacheId, StartPacket, SendPacket, EndPacket
<1> QED BY <1>3, <1>4, <1>5, <1>6, <1>7, <1>8 DEF Handshake

(* Membership in Elements.                                                 *)
LEMMA ElementsAre ==
  ASSUME NEW c
  PROVE  \A a : a \in Elements(c) <=> \E q \in Queues : \E i \in 1 .. Len(c[q]) : a = c[q][i]
BY DEF Elements

(* What Ownership says of one position of one queue.                       *)
LEMMA OwnedElements ==
  ASSUME Ownership, NEW q \in Queues, NEW i \in 1 .. Len(Contents(q))
  PROVE  /\ Contents(q)[i] \in Elements(AllContents)
         /\ Contents(q)[i] \in owned
         /\ Contents(q)[i] \notin WithTx
<1>1. AllContents[q] = Contents(q)
  BY DEF AllContents
<1>2. Contents(q)[i] \in Elements(AllContents)
  BY <1>1, ElementsAre
<1> QED BY <1>2 DEF Ownership

(* Equal ids are at one position of one queue.                             *)
LEMMA DistinctContents ==
  ASSUME Ownership, NEW q \in Queues, NEW r \in Queues,
         NEW i \in 1 .. Len(Contents(q)), NEW j \in 1 .. Len(Contents(r)),
         Contents(q)[i] = Contents(r)[j]
  PROVE  q = r /\ i = j
<1>1. AllContents[q] = Contents(q) /\ AllContents[r] = Contents(r)
  BY DEF AllContents
<1> QED BY <1>1 DEF Ownership, AllDistinct

(* A queue of distinct ids of the port is shorter than 2^9: the count does *)
(* not wrap.                                                               *)
LEMMA CountBound ==
  ASSUME TypeOK, Ownership, NEW q \in Queues
  PROVE  Len(Contents(q)) < NumBufids
<1> USE ConstantFacts
<1>1. IsFiniteSet(Bufids) /\ Cardinality(Bufids) = NumBufids
  BY FS_Interval DEF Bufids
<1>2. IsFiniteSet(PortIds) /\ Cardinality(PortIds) < NumBufids /\ Cardinality(PortIds) \in Nat
  <2>1. PortIds \in SUBSET Bufids
    BY PortIdsAssumption
  <2>2. IsFiniteSet(PortIds) /\ Cardinality(PortIds) <= NumBufids
        /\ Cardinality(PortIds) # NumBufids
    BY <2>1, <1>1, FS_Subset, PortIdsAssumption
  <2>3. Cardinality(PortIds) \in Nat
    BY <2>2, FS_CardinalityType
  <2> QED BY <2>2, <2>3
<1> DEFINE n == Len(Contents(q))
           f == [i \in 1 .. n |-> Contents(q)[i]]
<1>3. n \in Nat
  BY ContentsFacts
<1>4. IsFiniteSet(1 .. n) /\ Cardinality(1 .. n) = n
  <2> HIDE DEF n
  <2>1. 1 \in Int /\ n \in Int
    BY <1>3
  <2> QED BY <1>3, <2>1, FS_Interval
<1>5. \A i \in 1 .. n : Contents(q)[i] \in PortIds
  BY OwnedElements DEF TypeOK
<1>6. \A i, j \in 1 .. n : Contents(q)[i] = Contents(q)[j] => i = j
  BY DistinctContents
<1>7. f \in Injection(1 .. n, PortIds)
  BY <1>5, <1>6 DEF Injection, IsInjective
<1> HIDE DEF f, n
<1>8. n <= Cardinality(PortIds)
  BY <1>2, <1>4, <1>7, FS_Injection
<1>9. n < NumBufids
  BY <1>2, <1>3, <1>8
<1> QED BY <1>9 DEF n

(* While a queue is picked its head is what rv_queue_first_addr says.      *)
LEMMA ActiveHead ==
  ASSUME TypeOK, Handshake, Reads, Active
  PROVE  /\ ov_schdule_queue \in Queues /\ rv_queue_count[ov_schdule_queue] > 0
         /\ ov_schdule_queue \notin rv_empty_delay /\ rv_pkt_bufid_delay = NoBufid
         /\ Linked(ov_schdule_queue)[1] = rv_queue_first_addr[ov_schdule_queue]
         /\ Contents(ov_schdule_queue)[1] = rv_queue_first_addr[ov_schdule_queue]
<1> DEFINE p == ov_schdule_queue
<1>1. p \in Queues /\ ov_queue_waddr \in Bufids /\ ov_queue_waddr # NoBufid
  BY ConstantFacts DEF TypeOK, NiqTypeOK, ScheduleTypeOK
<1>2. rv_queue_count[p] > 0 /\ p \notin rv_empty_delay
  BY DEF Reads
<1>3. rv_pkt_bufid_delay = NoBufid
  BY DEF Handshake
<1>4. HeadNow(p) = rv_queue_first_addr[p]
  BY <1>1, <1>2, <1>3 DEF HeadNow
<1>5. Linked(p)[1] = rv_queue_first_addr[p]
  BY <1>1, <1>2, <1>4, LinkedFacts
<1>6. rv_queue_count[p] \in Nat /\ 1 \in 1 .. rv_queue_count[p]
  BY <1>1, <1>2, LinkedFacts, ConstantFacts
<1>7. Contents(p)[1] = Linked(p)[1]
  BY <1>1, <1>6, ContentsFacts
<1> QED BY <1>1, <1>2, <1>3, <1>5, <1>7

(* The id that is sent is the head of the picked queue.                    *)
LEMMA SentHead ==
  ASSUME TypeOK, Handshake, Reads, o_queue_rdata_valid
  PROVE  /\ Active /\ SentQueue = ov_schdule_queue /\ SentId = ov_queue_raddr /\ SentId \in Bufids
         /\ Linked(ov_schdule_queue)[1] = SentId
         /\ Contents(ov_schdule_queue)[1] = SentId
<1>1. Active /\ ~o_schdule_queue_wr
  BY DEF Active, Handshake, Stages
<1>2. ov_queue_raddr \in Bufids
  BY DEF TypeOK, ScheduleTypeOK
<1> QED BY <1>1, <1>2, ActiveHead DEF Reads, SentQueue, SentId

(* An id that is sent is not already with the transmitter.                 *)
LEMMA SentApart ==
  ASSUME TypeOK, Handshake, Reads, Ownership
  PROVE  SentId \notin WithTx
<1>1. CASE o_queue_rdata_valid
  <2>1. /\ ov_schdule_queue \in Queues /\ rv_queue_count[ov_schdule_queue] > 0
        /\ Contents(ov_schdule_queue)[1] = SentId
    BY <1>1, SentHead, ActiveHead
  <2>2. 1 \in 1 .. Len(Contents(ov_schdule_queue))
    <3>1. rv_queue_count[ov_schdule_queue] \in Nat
      BY <2>1, LinkedFacts, ConstantFacts
    <3> QED BY <2>1, <3>1, ContentsFacts
  <2> QED BY <2>1, <2>2, OwnedElements
<1>2. CASE ~o_queue_rdata_valid
  BY <1>2 DEF SentId, WithTx
<1> QED BY <1>1, <1>2

(* The list is the first part of the queue.                                *)
LEMMA LinkedInContents ==
  ASSUME TypeOK, NEW q \in Queues, NEW i \in 1 .. rv_queue_count[q]
  PROVE  i \in 1 .. Len(Contents(q)) /\ Contents(q)[i] = Linked(q)[i]
<1>1. rv_queue_count[q] \in Nat
  BY LinkedFacts, ConstantFacts
<1> QED BY <1>1, ContentsFacts

(* Equal ids of the lists are at one position of one list.                 *)
LEMMA DistinctLinked ==
  ASSUME TypeOK, Ownership, NEW q \in Queues, NEW r \in Queues,
         NEW i \in 1 .. rv_queue_count[q], NEW j \in 1 .. rv_queue_count[r],
         Linked(q)[i] = Linked(r)[j]
  PROVE  q = r /\ i = j
BY LinkedInContents, DistinctContents

(* A write that meets the read belongs to the queue that is read.          *)
LEMMA HitIsOwn ==
  ASSUME TypeOK, Handshake, Writes, Reads, Ownership,
         Active, ~o_schdule_queue_wr, WriteHit
  PROVE  ov_queue_id = ov_schdule_queue
<1> DEFINE p == ov_schdule_queue
           r == ov_queue_id
<1>1. p \in Queues /\ r \in Queues /\ ov_queue_waddr # NoBufid
  BY ConstantFacts DEF WriteHit, TypeOK, NiqTypeOK, ScheduleTypeOK
<1>2. rv_queue_count[p] > 0 /\ rv_pkt_bufid_delay = NoBufid /\ Linked(p)[1] = ov_queue_waddr
  BY ActiveHead DEF WriteHit, Reads
<1>3. Holds(Linked(r), ov_queue_waddr)
  BY <1>1, <1>2 DEF Writes
<1>4. PICK i \in 1 .. Len(Linked(r)) : Linked(r)[i] = Linked(p)[1]
  BY <1>2, <1>3 DEF Holds
<1>5. i \in 1 .. rv_queue_count[r] /\ 1 \in 1 .. rv_queue_count[p]
  <2>1. rv_queue_count[p] \in Nat /\ Len(Linked(r)) = rv_queue_count[r]
    BY <1>1, LinkedFacts, ConstantFacts
  <2> QED BY <1>2, <2>1
<1> QED BY <1>1, <1>4, <1>5, DistinctLinked

(* The head that virtual_queue_manage computes, with its bypasses, is the  *)
(* word behind the id that was sent, or the head as it was.                *)
LEMMA HeadAfterIs ==
  ASSUME TypeOK, Handshake, Writes, Reads, Ownership, NEW q \in Queues
  PROVE  HeadAfter(q) = IF q = SentQueue THEN Word(ov_queue_raddr) ELSE HeadNow(q)
<1>1. CASE q # SentQueue
  BY <1>1 DEF HeadAfter, HeadNow
<1>2. CASE q = SentQueue
  <2>1. o_queue_rdata_valid
    BY <1>2, ConstantFacts DEF SentQueue
  <2>2. /\ Active /\ ~o_schdule_queue_wr /\ q = ov_schdule_queue /\ SentId = ov_queue_raddr
        /\ q \notin rv_empty_delay
    BY <1>2, <2>1, SentHead, ActiveHead DEF Handshake, Stages
  <2>3. ov_queue_rdata = queue_ram[ov_queue_raddr]
    BY <2>1 DEF Reads
  <2>4. WriteHit => ov_queue_id = q
    BY <2>2, HitIsOwn
  <2>5. ov_queue_id = q => ov_queue_id # NoQueue
    BY ConstantFacts
  <2> QED BY <1>2, <2>2, <2>3, <2>4, <2>5 DEF HeadAfter, Word, WriteHit
<1> QED BY <1>1, <1>2

(* The link goes to the tail of the queue and nowhere else.                *)
LEMMA LinkIs ==
  ASSUME TypeOK, Tails, Ownership, rv_queue # NoQueue
  PROVE  /\ rv_queue \in Queues
         /\ rv_queue_count[rv_queue] = 0 => LinkAddress(rv_queue) = rv_bufid_cache
         /\ rv_queue_count[rv_queue] > 0 =>
               /\ LinkAddress(rv_queue) = Linked(rv_queue)[rv_queue_count[rv_queue]]
               /\ LinkData(rv_queue) = rv_bufid_cache
         /\ \A q \in Queues : \A i \in 1 .. rv_queue_count[q] :
               Linked(q)[i] = LinkAddress(rv_queue) => q = rv_queue /\ i = rv_queue_count[q]
<1> DEFINE r == rv_queue
           n == rv_queue_count[rv_queue]
<1>1. r \in Queues /\ n \in Nat
  BY LinkedFacts, ConstantFacts DEF TypeOK, NiqTypeOK
<1>2. n = 0 => LinkAddress(r) = rv_bufid_cache
  BY DEF LinkAddress, QueueEmpty
<1>3. n > 0 => LinkAddress(r) = Linked(r)[n] /\ LinkData(r) = rv_bufid_cache
  BY <1>1 DEF LinkAddress, LinkData, QueueEmpty, Tails
<1>4. ASSUME NEW q \in Queues, NEW i \in 1 .. rv_queue_count[q], Linked(q)[i] = LinkAddress(r)
      PROVE  q = r /\ i = rv_queue_count[q]
  <2>1. CASE n = 0
    <3>1. i \in 1 .. Len(Contents(q)) /\ Contents(q)[i] = rv_bufid_cache
      BY <1>2, <1>4, <2>1, LinkedInContents
    <3>2. Len(Contents(r)) = 1 /\ Contents(r)[1] = rv_bufid_cache
      <4>1. Len(Contents(r)) = n + 1 /\ Contents(r)[n + 1] = rv_bufid_cache
        BY <1>1, ContentsFacts
      <4> QED BY <2>1, <4>1
    <3>3. 1 \in 1 .. Len(Contents(r))
      BY <3>2
    <3>4. q = r
      BY <1>1, <3>1, <3>2, <3>3, DistinctContents
    <3> QED BY <3>4, <2>1
  <2>2. CASE n > 0
    <3>1. n \in 1 .. n
      BY <1>1, <2>2
    <3> HIDE DEF r, n
    <3>2. Linked(q)[i] = Linked(r)[n]
      BY <1>3, <1>4, <2>2
    <3> QED BY <1>1, <3>1, <3>2, DistinctLinked DEF r, n
  <2> QED BY <1>1, <2>1, <2>2
<1> QED BY <1>1, <1>2, <1>3, <1>4

-----------------------------------------------------------------------------
(***************************************************************************)
(* The lists after a cycle.                                                *)
(***************************************************************************)

(* The memory after a cycle, with the write then under way.                *)
After(a) == IF ov_queue_id' # NoQueue /\ ov_queue_waddr' = a THEN ov_queue_data'
            ELSE queue_ram'[a]

(* A cycle changes the word that it links, and no other.                   *)
LEMMA WordAfter ==
  ASSUME TypeOK, NEW id, NEW type, Cycle(id, type), NEW a \in Bufids
  PROVE  After(a) = IF rv_queue # NoQueue /\ LinkAddress(rv_queue) = a
                    THEN LinkData(rv_queue) ELSE Word(a)
<1>1. queue_ram'[a] = Word(a)
  BY DEF Cycle, OutputScheduleCycle, QueueMemory, Word, TypeOK, ScheduleTypeOK, NiqTypeOK
<1>2. /\ ov_queue_id' = rv_queue
      /\ rv_queue # NoQueue => ov_queue_waddr' = LinkAddress(rv_queue)
                               /\ ov_queue_data' = LinkData(rv_queue)
  BY DEF Cycle, InputQueueCycle, WriteLink
<1> QED BY <1>1, <1>2 DEF After

(* The head of a queue after a cycle.                                      *)
LEMMA HeadNowAfter ==
  ASSUME TypeOK, IInv, NEW id, NEW type, Cycle(id, type), NEW q \in Queues
  PROVE  /\ rv_queue_count[q] = 0 /\ rv_queue = q => HeadNow(q)' = rv_bufid_cache
         /\ rv_queue_count[q] > 0 /\ q # SentQueue => HeadNow(q)' = Linked(q)[1]
         /\ rv_queue_count[q] > 1 /\ q = SentQueue => HeadNow(q)' = Linked(q)[2]
         /\ rv_queue_count[q] = 1 /\ q = SentQueue /\ rv_queue = q =>
               HeadNow(q)' = rv_bufid_cache
<1> USE ConstantFacts DEF IInv
<1> DEFINE n == rv_queue_count[q]
<1>1. /\ ov_queue_id' = rv_queue
      /\ rv_queue = q => ov_queue_waddr' = LinkAddress(q) /\ ov_queue_data' = LinkData(q)
  BY DEF Cycle, InputQueueCycle, WriteLink
<1>2. /\ q \in rv_empty_delay' <=> n = 0
      /\ rv_pkt_bufid_delay' = SentId
      /\ rv_queue_first_addr'[q] = HeadAfter(q)
  BY DEF Cycle, OutputScheduleCycle, VirtualQueues, QueueEmpty
<1>3. HeadNow(q)' = IF rv_queue = q /\ n = 0 THEN LinkAddress(q)
                    ELSE IF rv_queue = q /\ LinkAddress(q) = SentId THEN LinkData(q)
                    ELSE HeadAfter(q)
  BY <1>1, <1>2 DEF HeadNow
<1>4. n \in Nat /\ (n > 0 => Linked(q)[1] = HeadNow(q))
      /\ (n > 1 => Linked(q)[2] = Word(Linked(q)[1]))
  BY LinkedFacts
<1>5. rv_queue = q => /\ n = 0 => LinkAddress(q) = rv_bufid_cache
                      /\ n > 0 => LinkAddress(q) = Linked(q)[n] /\ LinkData(q) = rv_bufid_cache
  BY LinkIs
<1>6. SentId # NoBufid =>
        /\ SentQueue \in Queues /\ rv_queue_count[SentQueue] > 0
        /\ SentId = Linked(SentQueue)[1] /\ SentId = ov_queue_raddr
  BY SentHead, ActiveHead DEF SentId
<1>7. q = SentQueue => SentId # NoBufid
  <2>1. q = SentQueue => o_queue_rdata_valid
    BY DEF SentQueue
  <2> QED BY <2>1, SentHead
<1>8. n > 0 /\ Linked(q)[n] = SentId => q = SentQueue /\ n = 1
  <2> SUFFICES ASSUME n > 0, Linked(q)[n] = SentId PROVE q = SentQueue /\ n = 1
    OBVIOUS
  <2>1. n \in 1 .. n /\ Len(Linked(q)) = n /\ Linked(q) \in Seq(Bufids)
    BY <1>4, LinkedFacts
  <2>2. SentId # NoBufid
    BY <2>1
  <2>3. rv_queue_count[SentQueue] \in Nat /\ 1 \in 1 .. rv_queue_count[SentQueue]
    BY <1>6, <2>2, LinkedFacts
  <2> HIDE DEF n
  <2>4. q = SentQueue /\ n = 1
    BY <1>6, <2>1, <2>2, <2>3, DistinctLinked DEF n
  <2> QED BY <2>4
<1> HIDE DEF n
<1>9. ASSUME n = 0, rv_queue = q PROVE HeadNow(q)' = rv_bufid_cache
  BY <1>9, <1>3, <1>5
<1>10. ASSUME n > 0, q # SentQueue PROVE HeadNow(q)' = Linked(q)[1]
  BY <1>10, <1>3, <1>4, <1>5, <1>8, HeadAfterIs
<1>11. ASSUME n > 1, q = SentQueue PROVE HeadNow(q)' = Linked(q)[2]
  BY <1>11, <1>3, <1>4, <1>5, <1>6, <1>7, <1>8, HeadAfterIs
<1>12. ASSUME n = 1, q = SentQueue, rv_queue = q PROVE HeadNow(q)' = rv_bufid_cache
  BY <1>12, <1>3, <1>5, <1>6, <1>7
<1> QED BY <1>9, <1>10, <1>11, <1>12 DEF n

(* The list of queue q after a cycle: without the id that was sent, with   *)
(* the id that passed the first stage.                                     *)
NextList(q) == (IF q = SentQueue THEN Tail(Linked(q)) ELSE Linked(q))
               \o (IF rv_queue = q THEN <<rv_bufid_cache>> ELSE <<>>)
(* The ids that left,                                                      *)
Gone(q) == IF q = SentQueue THEN 1 ELSE 0
(* and the ids that joined.                                                *)
New(q)  == IF rv_queue = q THEN 1 ELSE 0

(* Length and ids of the next list.                                        *)
LEMMA NextListFacts ==
  ASSUME TypeOK, IInv, NEW q \in Queues
  PROVE  /\ NextList(q) \in Seq(Bufids)
         /\ rv_queue_count[q] >= Gone(q)
         /\ Len(NextList(q)) = rv_queue_count[q] - Gone(q) + New(q)
         /\ \A i \in 1 .. rv_queue_count[q] - Gone(q) : NextList(q)[i] = Linked(q)[i + Gone(q)]
         /\ rv_queue = q => NextList(q)[rv_queue_count[q] - Gone(q) + 1] = rv_bufid_cache
<1> USE ConstantFacts
<1> DEFINE n == rv_queue_count[q]
           s == IF q = SentQueue THEN Tail(Linked(q)) ELSE Linked(q)
           k == Gone(q)
<1>1. n \in Nat /\ Linked(q) \in Seq(Bufids) /\ Len(Linked(q)) = n
  BY LinkedFacts
<1>2. rv_bufid_cache \in Bufids
  BY DEF TypeOK, NiqTypeOK
<1>3. k \in {0, 1} /\ n >= k
  <2>1. q = SentQueue => n > 0
    <3>1. q = SentQueue => o_queue_rdata_valid
      BY DEF SentQueue
    <3> QED BY <3>1, SentHead, ActiveHead DEF IInv
  <2> QED BY <1>1, <2>1 DEF Gone
<1>4. s \in Seq(Bufids) /\ Len(s) = n - k /\ \A i \in 1 .. n - k : s[i] = Linked(q)[i + k]
  <2>1. CASE q = SentQueue
    <3>1. Linked(q) # <<>> /\ k = 1
      BY <1>1, <1>3, <2>1 DEF Gone
    <3> QED BY <1>1, <2>1, <3>1, HeadTailProperties
  <2>2. CASE q # SentQueue
    BY <1>1, <2>2 DEF Gone
  <2> QED BY <2>1, <2>2
<1> HIDE DEF n, k, s
<1>5. CASE rv_queue = q
  <2>1. NextList(q) = s \o <<rv_bufid_cache>>
    BY <1>5 DEF NextList, s
  <2>2. <<rv_bufid_cache>> \in Seq(Bufids) /\ Len(<<rv_bufid_cache>>) = 1
    BY <1>2
  <2>3. /\ NextList(q) \in Seq(Bufids) /\ Len(NextList(q)) = (n - k) + 1
        /\ \A i \in 1 .. n - k : NextList(q)[i] = s[i]
        /\ NextList(q)[(n - k) + 1] = rv_bufid_cache
    BY <1>1, <1>2, <1>3, <1>4, <2>1, <2>2
  <2> QED BY <1>1, <1>3, <1>4, <1>5, <2>3 DEF n, k, New
<1>6. CASE rv_queue # q
  <2>1. NextList(q) = s \o <<>>
    BY <1>6 DEF NextList, s
  <2>2. NextList(q) = s
    BY <1>4, <2>1
  <2> QED BY <1>1, <1>3, <1>4, <1>6, <2>2 DEF n, k, New
<1> QED BY <1>5, <1>6

(* The count follows the list in all cases of arrival and departure.       *)
LEMMA CountAfterIs ==
  ASSUME TypeOK, IInv, NEW id, NEW type, Cycle(id, type), NEW q \in Queues
  PROVE  rv_queue_count'[q] = Len(NextList(q))
<1> USE ConstantFacts
<1> DEFINE n == rv_queue_count[q]
<1>1. rv_queue_count'[q] = CountAfter(q, SentQueue)
  BY DEF Cycle, InputQueueCycle, CountIds
<1>2. n \in 0 .. NumBufids - 1 /\ n >= Gone(q) /\ Len(NextList(q)) = n - Gone(q) + New(q)
  BY LinkedFacts, NextListFacts
<1>3. rv_queue = q => n + 1 < NumBufids
  BY CountBound, ContentsFacts DEF IInv
<1> HIDE DEF n
<1>4. rv_queue = q => (n + 1) % NumBufids = n + 1
  BY <1>2, <1>3
<1>5. n > 0 => (n + NumBufids - 1) % NumBufids = n - 1
  <2> SUFFICES ASSUME n > 0 PROVE (n + NumBufids - 1) % NumBufids = n - 1
    OBVIOUS
  <2> DEFINE m == n - 1
  <2>1. m \in 0 .. NumBufids - 1 /\ n + NumBufids - 1 = m + NumBufids
    BY <1>2
  <2> HIDE DEF m
  <2>2. (m + NumBufids) % NumBufids = m
    BY <2>1
  <2> QED BY <2>1, <2>2 DEF m
<1>6. CountAfter(q, SentQueue) = n - Gone(q) + New(q)
  BY <1>2, <1>4, <1>5 DEF CountAfter, Gone, New, n
<1> QED BY <1>1, <1>2, <1>6

(* The words of a queue after a cycle.                                     *)
LEMMA AfterLink ==
  ASSUME TypeOK, IInv, NEW id, NEW type, Cycle(id, type),
         NEW q \in Queues, NEW j \in 1 .. rv_queue_count[q]
  PROVE  After(Linked(q)[j]) = IF rv_queue = q /\ j = rv_queue_count[q] THEN rv_bufid_cache
                               ELSE Word(Linked(q)[j])
<1> USE ConstantFacts DEF IInv
<1>1. rv_queue_count[q] \in Nat /\ Linked(q)[j] \in Bufids /\ rv_queue_count[q] > 0
  BY LinkedFacts
<1>2. CASE rv_queue = q /\ j = rv_queue_count[q]
  BY <1>1, <1>2, LinkIs, WordAfter
<1>3. CASE ~(rv_queue = q /\ j = rv_queue_count[q])
  BY <1>1, <1>3, LinkIs, WordAfter
<1> QED BY <1>2, <1>3

(* The lists after a cycle: what the registers and the memory say, in      *)
(* whatever overlap of link, read and bypass, is the list that the arrival *)
(* and the departure make.                                                 *)
LEMMA LinkedAfter ==
  ASSUME TypeOK, IInv, NEW id, NEW type, Cycle(id, type), NEW q \in Queues
  PROVE  Linked(q)' = NextList(q)
<1> USE ConstantFacts
<1> DEFINE n == rv_queue_count[q]
           k == Gone(q)
           t == NextList(q)
<1>1. /\ n \in Nat /\ k \in {0, 1} /\ n >= k
      /\ t \in Seq(Bufids) /\ Len(t) = n - k + New(q)
      /\ \A i \in 1 .. n - k : t[i] = Linked(q)[i + k]
      /\ rv_queue = q => t[n - k + 1] = rv_bufid_cache
  BY LinkedFacts, NextListFacts DEF Gone
<1>2. rv_queue_count'[q] = Len(t)
  BY CountAfterIs
<1>3. \A j \in 1 .. n : After(Linked(q)[j]) = IF rv_queue = q /\ j = n THEN rv_bufid_cache
                                               ELSE Word(Linked(q)[j])
  BY AfterLink
<1>4. \A i \in 2 .. n : Linked(q)[i] = Word(Linked(q)[i - 1])
  BY LinkedFacts
<1>5. /\ n = 0 /\ rv_queue = q => HeadNow(q)' = rv_bufid_cache
      /\ n > 0 /\ k = 0 => HeadNow(q)' = Linked(q)[1]
      /\ n > 1 /\ k = 1 => HeadNow(q)' = Linked(q)[2]
      /\ n = 1 /\ k = 1 /\ rv_queue = q => HeadNow(q)' = rv_bufid_cache
  BY HeadNowAfter DEF Gone
<1> HIDE DEF n, k, t
<1>6. ASSUME NEW i \in 1 .. Len(t)
      PROVE  t[i] = IF i = 1 THEN HeadNow(q)' ELSE After(t[i - 1])
  <2>1. CASE i \in 1 .. n - k
    <3>1. t[i] = Linked(q)[i + k] /\ n > 0
      BY <1>1, <2>1
    <3>2. CASE i = 1
      BY <1>1, <1>5, <2>1, <3>1, <3>2
    <3>3. CASE i # 1
      <4> DEFINE j == i - 1 + k
      <4>1. i - 1 \in 1 .. n - k /\ j \in 1 .. n /\ j # n /\ j + 1 \in 2 .. n /\ j + 1 = i + k
            /\ (j + 1) - 1 = j
        BY <1>1, <2>1, <3>3
      <4>2. t[i - 1] = Linked(q)[j]
        BY <1>1, <4>1
      <4> HIDE DEF j
      <4>3. After(Linked(q)[j]) = Word(Linked(q)[j])
        BY <1>3, <4>1
      <4>4. Linked(q)[j + 1] = Word(Linked(q)[j])
        BY <1>4, <4>1
      <4> QED BY <3>1, <3>3, <4>1, <4>2, <4>3, <4>4
    <3> QED BY <3>2, <3>3
  <2>2. CASE i \notin 1 .. n - k
    <3>1. rv_queue = q /\ i = n - k + 1
      <4>1. New(q) \in {0, 1} /\ (New(q) = 1 => rv_queue = q)
        BY DEF New
      <4> QED BY <1>1, <2>2, <4>1
    <3>2. t[i] = rv_bufid_cache
      BY <1>1, <3>1
    <3>3. CASE i = 1
      BY <1>1, <1>5, <3>1, <3>2, <3>3
    <3>4. CASE i # 1
      <4>1. i - 1 \in 1 .. n - k /\ (i - 1) + k = n /\ n \in 1 .. n
        BY <1>1, <3>1, <3>4
      <4>2. t[i - 1] = Linked(q)[n]
        BY <1>1, <4>1
      <4> QED BY <1>3, <3>1, <3>2, <3>4, <4>1, <4>2
    <3> QED BY <3>3, <3>4
  <2> QED BY <2>1, <2>2
<1>7. t = [i \in 1 .. rv_queue_count'[q] |-> t[i]]
  BY <1>1, <1>2
<1>8. [i \in 1 .. rv_queue_count'[q] |-> t[i]]
        = [i \in 1 .. rv_queue_count'[q] |-> IF i = 1 THEN HeadNow(q)' ELSE After(t[i - 1])]
  BY <1>2, <1>6
<1>9. Chain(rv_queue_count'[q], HeadNow(q)', ov_queue_id', NoQueue, ov_queue_waddr',
            ov_queue_data', queue_ram', t)
  BY <1>7, <1>8 DEF Chain, After
<1>10. rv_queue_count'[q] \in Nat
  BY <1>1, <1>2
<1>11. \E s : IsLinked(q, s)' /\ s = t
  BY <1>9 DEF IsLinked
<1>12. Linked(q)' = t
  BY <1>10, <1>11, LinkedIsPrime
<1> QED BY <1>12 DEF t

-----------------------------------------------------------------------------
(***************************************************************************)
(* Tails, writes and reads after a cycle.                                  *)
(***************************************************************************)

(* A queue that is picked after a cycle was picked in it, or before.       *)
LEMMA ActiveAfter ==
  ASSUME TypeOK, IInv, NEW id, NEW type, Cycle(id, type), Active'
  PROVE  /\ ov_schdule_queue' \in Queues /\ rv_queue_count[ov_schdule_queue'] > 0
         /\ ~o_queue_rdata_valid
         /\ \/ o_schdule_queue_wr' /\ Picked(ov_schdule_queue')
            \/ Active /\ ~o_schdule_queue_wr' /\ ov_schdule_queue' = ov_schdule_queue
<1> USE DEF IInv, Cycle, OutputScheduleCycle
<1>1. ~o_queue_rdata_valid
  BY DEF Active, Handshake, Stages, PickQueue, ReadWord, VirtualQueues
<1>2. CASE o_schdule_queue_wr'
  <2>1. ov_schdule_queue' \in Queues /\ Picked(ov_schdule_queue')
    BY <1>2 DEF PickQueue
  <2>2. rv_queue_count[ov_schdule_queue'] > 0
    <3>1. rv_queue_count[ov_schdule_queue'] \in Nat
      BY <2>1, LinkedFacts, ConstantFacts
    <3> QED BY <2>1, <3>1 DEF Picked, Ready, QueueEmpty
  <2> QED BY <1>1, <1>2, <2>1, <2>2
<1>3. CASE ~o_schdule_queue_wr'
  <2>1. Active
    BY <1>3 DEF Active, ReadWord, VirtualQueues
  <2>2. ov_schdule_queue' = ov_schdule_queue
    BY <2>1, <1>3 DEF Handshake, PickQueue
  <2> QED BY <1>1, <1>3, <2>1, <2>2, ActiveHead
<1> QED BY <1>2, <1>3

(* A cycle keeps the tails,                                                *)
LEMMA TailsStep ==
  ASSUME TypeOK, IInv, NEW id, NEW type, Cycle(id, type)
  PROVE  Tails'
<1> SUFFICES ASSUME NEW q \in Queues, rv_queue_count'[q] > 0
             PROVE  rv_last_addr'[q] = Linked(q)'[rv_queue_count'[q]]
  BY DEF Tails
<1> DEFINE n == rv_queue_count[q]
           k == Gone(q)
           t == NextList(q)
<1>1. /\ n \in Nat /\ k \in {0, 1} /\ n >= k
      /\ t \in Seq(Bufids) /\ Len(t) = n - k + New(q)
      /\ \A i \in 1 .. n - k : t[i] = Linked(q)[i + k]
      /\ rv_queue = q => t[n - k + 1] = rv_bufid_cache
  BY LinkedFacts, NextListFacts, ConstantFacts DEF Gone
<1>2. rv_queue_count'[q] = Len(t) /\ Linked(q)' = t
  BY CountAfterIs, LinkedAfter
<1>3. n > 0 => rv_last_addr[q] = Linked(q)[n]
  BY DEF IInv, Tails
<1>4. rv_last_addr'[q] = IF rv_queue = q THEN rv_bufid_cache ELSE rv_last_addr[q]
  BY ConstantFacts DEF Cycle, InputQueueCycle, WriteLink, TypeOK, NiqTypeOK
<1> HIDE DEF n, k, t
<1>5. CASE rv_queue = q
  <2>1. Len(t) = n - k + 1
    BY <1>1, <1>5 DEF New
  <2> QED BY <1>1, <1>2, <1>4, <1>5, <2>1
<1>6. CASE rv_queue # q
  <2>1. Len(t) = n - k /\ n - k \in 1 .. n - k /\ (n - k) + k = n /\ n > 0
    BY <1>1, <1>2, <1>6 DEF New
  <2>2. t[n - k] = Linked(q)[n]
    BY <1>1, <2>1
  <2> QED BY <1>2, <1>3, <1>4, <1>6, <2>1, <2>2
<1> QED BY <1>5, <1>6

(* what the pending write means,                                           *)
LEMMA WritesStep ==
  ASSUME TypeOK, IInv, NEW id, NEW type, Cycle(id, type)
  PROVE  Writes'
<1> SUFFICES ASSUME NEW q \in Queues
             PROVE  /\ q \in rv_empty_delay' /\ rv_queue_count'[q] > 0 => ov_queue_id' = q
                    /\ ov_queue_id' = q => \/ Holds(Linked(q)', ov_queue_waddr')
                                           \/ ov_queue_waddr' = rv_pkt_bufid_delay'
  BY DEF Writes
<1> DEFINE n == rv_queue_count[q]
           k == Gone(q)
           t == NextList(q)
<1>1. /\ n \in Nat /\ k \in {0, 1} /\ n >= k
      /\ t \in Seq(Bufids) /\ Len(t) = n - k + New(q)
      /\ \A i \in 1 .. n - k : t[i] = Linked(q)[i + k]
      /\ rv_queue = q => t[n - k + 1] = rv_bufid_cache
  BY LinkedFacts, NextListFacts, ConstantFacts DEF Gone
<1>2. rv_queue_count'[q] = Len(t) /\ Linked(q)' = t
  BY CountAfterIs, LinkedAfter
<1>3. /\ ov_queue_id' = rv_queue /\ rv_pkt_bufid_delay' = SentId
      /\ rv_queue = q => ov_queue_waddr' = LinkAddress(q)
      /\ q \in rv_empty_delay' <=> n = 0
  BY ConstantFacts DEF Cycle, InputQueueCycle, WriteLink, OutputScheduleCycle, VirtualQueues,
                       QueueEmpty
<1>4. rv_queue = q => /\ n = 0 => LinkAddress(q) = rv_bufid_cache
                      /\ n > 0 => LinkAddress(q) = Linked(q)[n]
  BY LinkIs, ConstantFacts DEF IInv
<1>5. k = 1 => SentId = Linked(q)[1]
  <2>1. k = 1 => q = SentQueue /\ o_queue_rdata_valid
    BY ConstantFacts DEF Gone, SentQueue
  <2> QED BY <2>1, SentHead DEF IInv
<1> HIDE DEF n, k, t
<1>6. ASSUME n = 0, Len(t) > 0 PROVE rv_queue = q
  BY <1>1, <1>6 DEF New
<1>7. ASSUME rv_queue = q
      PROVE  Holds(t, LinkAddress(q)) \/ LinkAddress(q) = SentId
  <2>0. Len(t) = n - k + 1
    BY <1>1, <1>7 DEF New
  <2>1. CASE n = 0
    <3>1. 1 \in 1 .. Len(t) /\ t[1] = rv_bufid_cache
      BY <1>1, <1>7, <2>0, <2>1
    <3> QED BY <1>4, <1>7, <2>1, <3>1 DEF Holds
  <2>2. CASE n > k
    <3>1. n - k \in 1 .. n - k /\ n - k \in 1 .. Len(t) /\ (n - k) + k = n /\ n > 0
      BY <1>1, <2>0, <2>2
    <3>2. t[n - k] = Linked(q)[n]
      BY <1>1, <3>1
    <3> QED BY <1>4, <1>7, <3>1, <3>2 DEF Holds
  <2>3. CASE n = 1 /\ k = 1
    BY <1>4, <1>5, <1>7, <2>3
  <2> QED BY <1>1, <2>1, <2>2, <2>3
<1> QED BY <1>2, <1>3, <1>6, <1>7

(* and what the pending read means.                                        *)
LEMMA ReadsStep ==
  ASSUME TypeOK, IInv, NEW id, NEW type, Cycle(id, type)
  PROVE  Reads'
<1> USE ConstantFacts
<1> DEFINE p == ov_schdule_queue'
<1>1. Active' => rv_queue_count'[p] > 0 /\ p \notin rv_empty_delay'
  <2> SUFFICES ASSUME Active' PROVE rv_queue_count'[p] > 0 /\ p \notin rv_empty_delay'
    OBVIOUS
  <2>1. p \in Queues /\ rv_queue_count[p] > 0 /\ ~o_queue_rdata_valid
    BY ActiveAfter
  <2>2. p \notin rv_empty_delay'
    BY <2>1 DEF Cycle, OutputScheduleCycle, VirtualQueues, QueueEmpty
  <2>3. Gone(p) = 0 /\ New(p) \in {0, 1}
    BY <2>1 DEF Gone, SentQueue, New
  <2>4. rv_queue_count'[p] = rv_queue_count[p] + New(p)
    <3>1. rv_queue_count[p] \in Nat
      BY <2>1, LinkedFacts
    <3> QED BY <2>1, <2>3, <3>1, CountAfterIs, NextListFacts
  <2>5. rv_queue_count[p] \in Nat
    BY <2>1, LinkedFacts
  <2> QED BY <2>1, <2>2, <2>3, <2>4, <2>5
<1>2. Active' /\ ~o_schdule_queue_wr' => ov_queue_raddr' = rv_queue_first_addr'[p]
  <2> SUFFICES ASSUME Active', ~o_schdule_queue_wr'
               PROVE  ov_queue_raddr' = rv_queue_first_addr'[p]
    OBVIOUS
  <2>1. Active /\ p = ov_schdule_queue /\ p \in Queues /\ ~o_queue_rdata_valid
    BY ActiveAfter
  <2>2. rv_queue_count[p] > 0 /\ Linked(p)[1] = rv_queue_first_addr[p]
    BY <2>1, ActiveHead DEF IInv
  <2>3. HeadAfter(p) = rv_queue_first_addr[p]
    <3>1. p # SentQueue
      BY <2>1 DEF SentQueue
    <3>2. HeadNow(p) = Linked(p)[1]
      BY <2>1, <2>2, LinkedFacts
    <3> QED BY <2>1, <2>2, <3>1, <3>2, HeadAfterIs DEF IInv
  <2>4. ov_queue_raddr' = rv_queue_first_addr[p]
    BY <2>1 DEF Cycle, OutputScheduleCycle, VirtualQueues, IInv, Reads
  <2> QED BY <2>1, <2>3, <2>4 DEF Cycle, OutputScheduleCycle, VirtualQueues
<1>3. o_schdule_queue_wr => nqm_state' = "IDLE_S" /\ ~o_queue_rdata_valid'
  BY DEF IInv, Handshake, Stages, Cycle, OutputScheduleCycle, ReadWord
<1>4. ~o_schdule_queue_wr => ov_queue_raddr' = ov_queue_raddr
  BY DEF Cycle, OutputScheduleCycle, VirtualQueues
<1>5. queue_ram'[ov_queue_raddr] = IF WriteHit THEN ov_queue_data ELSE queue_ram[ov_queue_raddr]
  BY DEF Cycle, OutputScheduleCycle, QueueMemory, WriteHit, TypeOK, ScheduleTypeOK, NiqTypeOK
<1>6. nqm_state' \in {"WAIT0_S", "WAIT1_S"} => r_ram_rdata' = queue_ram'[ov_queue_raddr']
  BY <1>3, <1>4, <1>5
     DEF IInv, Reads, Cycle, OutputScheduleCycle, QueueMemory, ReadWord, TypeOK, ScheduleTypeOK
<1>7. o_queue_rdata_valid' => ov_queue_rdata' = queue_ram'[ov_queue_raddr']
  BY <1>3, <1>4, <1>5
     DEF IInv, Reads, Cycle, OutputScheduleCycle, ReadWord, TypeOK, ScheduleTypeOK
<1> QED BY <1>1, <1>2, <1>6, <1>7 DEF Reads

-----------------------------------------------------------------------------
(***************************************************************************)
(* The queues after a cycle and who owns their ids.                        *)
(***************************************************************************)

(* The tail of a concatenation.                                            *)
LEMMA TailOfConcat ==
  ASSUME NEW S, NEW s \in Seq(S), NEW t \in Seq(S), s # <<>>
  PROVE  s \o t # <<>> /\ Tail(s \o t) = Tail(s) \o t
<1>1. Len(s) \in Nat /\ Len(s) > 0 /\ Len(t) \in Nat
  OBVIOUS
<1>2. s \o t \in Seq(S) /\ Len(s \o t) = Len(s) + Len(t)
      /\ \A i \in 1 .. Len(s) + Len(t) : (s \o t)[i] = IF i <= Len(s) THEN s[i] ELSE t[i - Len(s)]
  OBVIOUS
<1>3. Tail(s) \in Seq(S) /\ Len(Tail(s)) = Len(s) - 1
      /\ \A i \in 1 .. Len(s) - 1 : Tail(s)[i] = s[i + 1]
  BY HeadTailProperties
<1>4. s \o t # <<>>
  BY <1>1, <1>2
<1> DEFINE u == s \o t
           v == Tail(s)
<1>5. Tail(u) \in Seq(S) /\ Len(Tail(u)) = Len(s) + Len(t) - 1
      /\ \A i \in 1 .. Len(s) + Len(t) - 1 : Tail(u)[i] = u[i + 1]
  <2> HIDE DEF u
  <2>1. u \in Seq(S) /\ u # <<>> /\ Len(u) = Len(s) + Len(t)
    BY <1>2, <1>4 DEF u
  <2> QED BY <2>1, HeadTailProperties
<1>6. v \o t \in Seq(S) /\ Len(v \o t) = Len(s) - 1 + Len(t)
      /\ \A i \in 1 .. Len(s) - 1 + Len(t) :
           (v \o t)[i] = IF i <= Len(s) - 1 THEN v[i] ELSE t[i - (Len(s) - 1)]
  <2> HIDE DEF v
  <2>1. v \in Seq(S) /\ Len(v) = Len(s) - 1
    BY <1>3 DEF v
  <2> QED BY <1>1, <2>1
<1>7. ASSUME NEW i \in 1 .. Len(s) + Len(t) - 1
      PROVE  Tail(u)[i] = (v \o t)[i]
  <2>1. CASE i <= Len(s) - 1
    <3>1. i \in 1 .. Len(s) - 1 /\ i + 1 <= Len(s) /\ i + 1 \in 1 .. Len(s) + Len(t)
      BY <1>1, <2>1
    <3> QED BY <1>1, <1>2, <1>3, <1>5, <1>6, <2>1, <3>1
  <2>2. CASE ~(i <= Len(s) - 1)
    <3>1. /\ ~(i + 1 <= Len(s)) /\ i + 1 \in 1 .. Len(s) + Len(t)
          /\ (i + 1) - Len(s) = i - (Len(s) - 1)
      BY <1>1, <2>2
    <3> QED BY <1>1, <1>2, <1>5, <1>6, <2>2, <3>1
  <2> QED BY <2>1, <2>2
<1>8. Tail(u) = v \o t
  <2> DEFINE x == Tail(u)
             y == v \o t
  <2>1. x \in Seq(S) /\ y \in Seq(S) /\ Len(x) = Len(y)
        /\ \A i \in 1 .. Len(x) : x[i] = y[i]
    BY <1>1, <1>5, <1>6, <1>7
  <2> HIDE DEF x, y
  <2>2. x = y
    BY <2>1, SeqEqual
  <2> QED BY <2>2 DEF x, y
<1> QED BY <1>4, <1>8

(* A packet that gets a queue is new to the port.                          *)
LEMMA Arrival ==
  ASSUME TypeOK, NEW id \in PortIds \cup {NoBufid}, NEW type \in Queues, Cycle(id, type)
  PROVE  rv_queue' # NoQueue =>
           rv_queue' \in Queues /\ id \in PortIds /\ id \notin owned /\ rv_bufid_cache' = id
<1>1. rv_queue' \in Queues \cup {NoQueue}
  BY SelectedQueueType DEF Cycle, InputQueueCycle, SelectQueue
<1> QED BY <1>1, ConstantFacts DEF Cycle, InputQueueCycle, SelectQueue, Arriving

(* The queues after a cycle: the head leaves the queue that is sent, the   *)
(* arriving id is the last of its queue.                                   *)
LEMMA ContentsAfter ==
  ASSUME TypeOK, IInv, NEW id, NEW type, Cycle(id, type), NEW q \in Queues
  PROVE  /\ q = SentQueue => Contents(q) # <<>>
         /\ Contents(q)' = (IF q = SentQueue THEN Tail(Contents(q)) ELSE Contents(q))
                           \o (IF rv_queue' = q THEN <<rv_bufid_cache'>> ELSE <<>>)
<1> USE ConstantFacts
<1> DEFINE stage == IF rv_queue = q THEN <<rv_bufid_cache>> ELSE <<>>
<1>1. Linked(q) \in Seq(Bufids) /\ stage \in Seq(Bufids)
  BY LinkedFacts DEF TypeOK, NiqTypeOK
<1>2. q = SentQueue => Linked(q) # <<>>
  <2>1. q = SentQueue => rv_queue_count[q] > 0
    <3>1. q = SentQueue => o_queue_rdata_valid
      BY DEF SentQueue
    <3> QED BY <3>1, SentHead, ActiveHead DEF IInv
  <2> QED BY <2>1, LinkedFacts
<1>3. Contents(q) = Linked(q) \o stage
  BY DEF Contents
<1>4. NextList(q) = (IF q = SentQueue THEN Tail(Linked(q)) ELSE Linked(q)) \o stage
  BY DEF NextList
<1>5. Contents(q)' = Linked(q)' \o (IF rv_queue' = q THEN <<rv_bufid_cache'>> ELSE <<>>)
  BY DEF Contents
<1> HIDE DEF stage
<1>6. NextList(q) = IF q = SentQueue THEN Tail(Contents(q)) ELSE Contents(q)
  BY <1>1, <1>2, <1>3, <1>4, TailOfConcat
<1>7. q = SentQueue => Contents(q) # <<>>
  BY <1>1, <1>2, <1>3, TailOfConcat
<1> QED BY <1>5, <1>6, <1>7, LinkedAfter

(* The lists c when the head of list out leaves and a joins list in;       *)
Served(c, in, out, a) ==
  [q \in Queues |-> (IF q = out THEN Tail(c[q]) ELSE c[q]) \o (IF in = q THEN <<a>> ELSE <<>>)]

(* the ids that stay,                                                      *)
Kept(c, out) == Elements(c) \ (IF out \in Queues THEN {c[out][1]} ELSE {})
(* and the one that joins.                                                 *)
Put(in, a) == IF in \in Queues THEN {a} ELSE {}

(* Distinct lists stay distinct, and hold what stays and what joins.       *)
LEMMA QueuesStep ==
  ASSUME NEW S, NEW c \in [Queues -> Seq(S)], NEW in, NEW out, NEW a \in S,
         out \in Queues => c[out] # <<>>,
         in \in Queues => a \notin Elements(c),
         AllDistinct(c)
  PROVE  /\ AllDistinct(Served(c, in, out, a))
         /\ Elements(Served(c, in, out, a)) = Kept(c, out) \cup Put(in, a)
<1> DEFINE d == Served(c, in, out, a)
<1> DEFINE k(q) == IF q = out THEN 1 ELSE 0
           e(q) == IF in = q THEN 1 ELSE 0
           n(q) == Len(c[q]) - k(q)
<1>1. ASSUME NEW q \in Queues
      PROVE  /\ Len(c[q]) \in Nat /\ n(q) \in Nat /\ Len(d[q]) = n(q) + e(q)
             /\ \A i \in 1 .. n(q) : d[q][i] = c[q][i + k(q)]
             /\ in = q => d[q][n(q) + 1] = a
  <2> DEFINE s == IF q = out THEN Tail(c[q]) ELSE c[q]
  <2>1. c[q] \in Seq(S) /\ Len(c[q]) \in Nat /\ (q = out => c[q] # <<>> /\ Len(c[q]) > 0)
    OBVIOUS
  <2>2. s \in Seq(S) /\ Len(s) = n(q) /\ \A i \in 1 .. n(q) : s[i] = c[q][i + k(q)]
    <3>1. CASE q = out
      BY <2>1, <3>1, HeadTailProperties
    <3>2. CASE q # out
      BY <2>1, <3>2
    <3> QED BY <3>1, <3>2
  <2>3. d[q] = s \o (IF in = q THEN <<a>> ELSE <<>>)
    BY DEF Served
  <2>4. n(q) \in Nat
    BY <2>2
  <2> HIDE DEF s
  <2>5. CASE in = q
    <3>1. d[q] = s \o <<a>> /\ <<a>> \in Seq(S) /\ Len(<<a>>) = 1
      BY <2>3, <2>5
    <3>2. Len(d[q]) = Len(s) + 1 /\ (\A i \in 1 .. Len(s) : d[q][i] = s[i]) /\ d[q][Len(s) + 1] = a
      BY <2>2, <3>1
    <3>3. Len(d[q]) = n(q) + e(q)
      BY <2>2, <2>5, <3>2
    <3> HIDE DEF n, k, e
    <3> QED BY <2>1, <2>2, <2>4, <3>2, <3>3
  <2>6. CASE in # q
    <3>1. d[q] = s \o <<>>
      BY <2>3, <2>6
    <3>2. d[q] = s
      BY <2>2, <3>1
    <3>3. Len(d[q]) = n(q) + e(q)
      BY <2>2, <2>4, <2>6, <3>2
    <3> HIDE DEF n, k, e
    <3> QED BY <2>1, <2>2, <2>4, <2>6, <3>2, <3>3
  <2> QED BY <2>5, <2>6
<1>2. ASSUME NEW q \in Queues, NEW i \in 1 .. Len(d[q])
      PROVE  \/ in = q /\ i = n(q) + 1 /\ d[q][i] = a
             \/ i \in 1 .. n(q) /\ i + k(q) \in 1 .. Len(c[q]) /\ d[q][i] = c[q][i + k(q)]
                /\ i + k(q) >= 1 + k(q)
  <2>1. k(q) \in {0, 1} /\ e(q) \in {0, 1} /\ (e(q) = 1 => in = q) /\ Len(c[q]) = n(q) + k(q)
    BY <1>1
  <2>2. /\ Len(c[q]) \in Nat /\ n(q) \in Nat /\ Len(d[q]) = n(q) + e(q)
        /\ \A j \in 1 .. n(q) : d[q][j] = c[q][j + k(q)]
        /\ in = q => d[q][n(q) + 1] = a
    BY <1>1
  <2> HIDE DEF n, k, e
  <2>3. CASE i \in 1 .. n(q)
    BY <2>1, <2>2, <2>3
  <2>4. CASE i \notin 1 .. n(q)
    <3>1. i = n(q) + 1 /\ in = q
      BY <2>1, <2>2, <2>4
    <3> QED BY <2>2, <3>1
  <2> QED BY <2>3, <2>4
<1>3. \A q \in Queues : \A i \in 1 .. Len(c[q]) : c[q][i] \in Elements(c)
  BY ElementsAre
<1>4. AllDistinct(d)
  <2> SUFFICES ASSUME NEW q \in Queues, NEW r \in Queues,
                      NEW i \in 1 .. Len(d[q]), NEW j \in 1 .. Len(d[r]), d[q][i] = d[r][j]
               PROVE  q = r /\ i = j
    BY DEF AllDistinct
  <2>1. \/ in = q /\ i = n(q) + 1 /\ d[q][i] = a
        \/ i + k(q) \in 1 .. Len(c[q]) /\ d[q][i] = c[q][i + k(q)]
    BY <1>2
  <2>2. \/ in = r /\ j = n(r) + 1 /\ d[r][j] = a
        \/ j + k(r) \in 1 .. Len(c[r]) /\ d[r][j] = c[r][j + k(r)]
    BY <1>2
  <2>3. in \in Queues => \A x \in Queues : \A y \in 1 .. Len(c[x]) : c[x][y] # a
    BY <1>3
  <2>4. k(q) \in Nat /\ k(r) \in Nat /\ (q = r => k(q) = k(r))
    OBVIOUS
  <2> HIDE DEF k, n, e
  <2>5. CASE in = q /\ i = n(q) + 1 /\ d[q][i] = a
    <3>1. in = r /\ j = n(r) + 1
      BY <2>2, <2>3, <2>5
    <3> QED BY <2>5, <3>1
  <2>6. CASE in = r /\ j = n(r) + 1 /\ d[r][j] = a
    <3>1. in = q /\ i = n(q) + 1
      BY <2>1, <2>3, <2>6
    <3> QED BY <2>6, <3>1
  <2>7. CASE i + k(q) \in 1 .. Len(c[q]) /\ d[q][i] = c[q][i + k(q)]
             /\ j + k(r) \in 1 .. Len(c[r]) /\ d[r][j] = c[r][j + k(r)]
    <3> DEFINE x == i + k(q)
               y == j + k(r)
    <3>1. x \in 1 .. Len(c[q]) /\ y \in 1 .. Len(c[r]) /\ c[q][x] = c[r][y]
      BY <2>7
    <3> HIDE DEF x, y
    <3>2. q = r /\ x = y
      BY <3>1 DEF AllDistinct
    <3> QED BY <2>4, <3>2 DEF x, y
  <2> QED BY <2>1, <2>2, <2>5, <2>6, <2>7
<1>5. ASSUME NEW x \in Elements(d)
      PROVE  x \in (Elements(c) \ (IF out \in Queues THEN {c[out][1]} ELSE {}))
                    \cup (IF in \in Queues THEN {a} ELSE {})
  <2>0. PICK q \in Queues : \E i \in 1 .. Len(d[q]) : x = d[q][i]
    BY ElementsAre
  <2>1. PICK i \in 1 .. Len(d[q]) : x = d[q][i]
    BY <2>0
  <2>2. CASE in = q /\ d[q][i] = a
    BY <2>1, <2>2
  <2>3. CASE i \in 1 .. n(q) /\ i + k(q) \in 1 .. Len(c[q]) /\ d[q][i] = c[q][i + k(q)]
             /\ i + k(q) >= 1 + k(q)
    <3>1. x \in Elements(c)
      BY <1>3, <2>1, <2>3
    <3>2. ASSUME out \in Queues, x = c[out][1] PROVE FALSE
      <4>1. 1 \in 1 .. Len(c[out])
        BY <3>2
      <4>2. q = out /\ i + k(q) = 1
        <5> HIDE DEF k, n
        <5> QED BY <2>1, <2>3, <3>2, <4>1 DEF AllDistinct
      <4>3. k(q) = 1
        BY <4>2
      <4> QED BY <4>2, <4>3, <2>3
    <3> QED BY <3>1, <3>2
  <2> QED BY <1>2, <2>2, <2>3
<1>6. ASSUME NEW x \in Elements(c), out \in Queues => x # c[out][1]
      PROVE  x \in Elements(d)
  <2>0. PICK q \in Queues : \E i \in 1 .. Len(c[q]) : x = c[q][i]
    BY ElementsAre
  <2>1. PICK i \in 1 .. Len(c[q]) : x = c[q][i]
    BY <2>0
  <2>2. i - k(q) \in 1 .. n(q)
    BY <1>1, <1>6, <2>1
  <2>3. k(q) \in {0, 1} /\ e(q) \in {0, 1} /\ Len(d[q]) = n(q) + e(q) /\ n(q) \in Nat
        /\ \A j \in 1 .. n(q) : d[q][j] = c[q][j + k(q)]
    BY <1>1
  <2> HIDE DEF n, k, e
  <2>4. d[q][i - k(q)] = c[q][i]
    <3>1. (i - k(q)) + k(q) = i
      BY <2>3
    <3> QED BY <2>2, <2>3, <3>1
  <2>5. i - k(q) \in 1 .. Len(d[q])
    BY <2>2, <2>3
  <2> QED BY <2>1, <2>4, <2>5, ElementsAre
<1>7. in \in Queues => a \in Elements(d)
  <2> SUFFICES ASSUME in \in Queues PROVE a \in Elements(d)
    OBVIOUS
  <2>1. e(in) = 1 /\ Len(d[in]) = n(in) + e(in) /\ n(in) \in Nat /\ d[in][n(in) + 1] = a
    BY <1>1
  <2> HIDE DEF n, k, e
  <2>2. n(in) + 1 \in 1 .. Len(d[in])
    BY <2>1
  <2> QED BY <2>1, <2>2, ElementsAre
<1> HIDE DEF k, n, e
<1>8. Elements(d) = Kept(c, out) \cup Put(in, a)
  BY <1>5, <1>6, <1>7 DEF Kept, Put
<1> QED BY <1>4, <1>8

(* The same of the port's queues.                                          *)
LEMMA ContentsStep ==
  ASSUME TypeOK, IInv, NEW id \in PortIds \cup {NoBufid}, NEW type \in Queues, Cycle(id, type)
  PROVE  /\ AllDistinct(AllContents')
         /\ Elements(AllContents') = (Elements(AllContents) \ {SentId})
                                     \cup (IF rv_queue' = NoQueue THEN {} ELSE {id})
         /\ SentId # NoBufid => SentId \in Elements(AllContents)
<1> USE ConstantFacts
<1> DEFINE c == AllContents
           d == AllContents'
<1>1. c \in [Queues -> Seq(Bufids)] /\ (\A q \in Queues : c[q] = Contents(q))
  BY ContentsFacts DEF AllContents
<1>2. d = [q \in Queues |-> Contents(q)']
  BY DEF AllContents
<1>3. \A q \in Queues : Contents(q)' = (IF q = SentQueue THEN Tail(Contents(q)) ELSE Contents(q))
                                       \o (IF rv_queue' = q THEN <<rv_bufid_cache'>> ELSE <<>>)
  BY ContentsAfter
<1>4. SentQueue \in Queues => c[SentQueue] # <<>>
  BY <1>1, ContentsAfter
<1>5. rv_queue' \in Queues \cup {NoQueue} /\ rv_bufid_cache' \in Bufids
  BY CycleType DEF TypeOK, NiqTypeOK
<1>6. rv_queue' # NoQueue => rv_bufid_cache' = id /\ rv_bufid_cache' \notin Elements(c)
  BY Arrival DEF IInv, Ownership
<1>7. AllDistinct(c)
  BY DEF IInv, Ownership
<1>8. d = [q \in Queues |-> (IF q = SentQueue THEN Tail(c[q]) ELSE c[q])
                            \o (IF rv_queue' = q THEN <<rv_bufid_cache'>> ELSE <<>>)]
  BY <1>1, <1>2, <1>3
<1>9. /\ SentQueue \in Queues <=> SentId # NoBufid
      /\ SentQueue \in Queues => c[SentQueue][1] = SentId
  <2>1. CASE o_queue_rdata_valid
    BY <1>1, <2>1, SentHead, ActiveHead DEF IInv
  <2>2. CASE ~o_queue_rdata_valid
    BY <2>2 DEF SentQueue, SentId
  <2> QED BY <2>1, <2>2
<1> HIDE DEF c, d
<1>10. /\ AllDistinct(d)
       /\ Elements(d) = (Elements(c) \ (IF SentQueue \in Queues THEN {c[SentQueue][1]} ELSE {}))
                        \cup (IF rv_queue' \in Queues THEN {rv_bufid_cache'} ELSE {})
  <2> DEFINE in == rv_queue'
             out == SentQueue
             a == rv_bufid_cache'
  <2>1. in \in Queues => a \notin Elements(c)
    BY <1>6
  <2>2. c \in [Queues -> Seq(Bufids)]
    BY <1>1
  <2>5. a \in Bufids
    BY <1>5
  <2>6. out \in Queues => c[out] # <<>>
    BY <1>4
  <2>3. d = Served(c, in, out, a)
    BY <1>8 DEF Served
  <2> HIDE DEF in, out, a
  <2>4. /\ AllDistinct(Served(c, in, out, a))
        /\ Elements(Served(c, in, out, a)) = Kept(c, out) \cup Put(in, a)
    BY ONLY <1>7, <2>1, <2>2, <2>5, <2>6, QueuesStep
  <2> QED BY <2>3, <2>4 DEF in, out, a, Kept, Put
<1>11. NoBufid \notin Elements(c)
  <2> SUFFICES ASSUME NoBufid \in Elements(c) PROVE FALSE
    OBVIOUS
  <2>1. PICK q \in Queues : \E i \in 1 .. Len(c[q]) : c[q][i] = NoBufid
    BY ElementsAre
  <2>2. c[q] \in Seq(Bufids)
    BY <1>1
  <2> QED BY <2>1, <2>2
<1>12. Elements(d) = (Elements(c) \ {SentId}) \cup (IF rv_queue' = NoQueue THEN {} ELSE {id})
  BY <1>5, <1>6, <1>9, <1>10, <1>11
<1>13. SentId # NoBufid => SentId \in Elements(c)
  <2> SUFFICES ASSUME SentId # NoBufid PROVE SentId \in Elements(c)
    OBVIOUS
  <2>1. SentQueue \in Queues /\ c[SentQueue][1] = SentId /\ c[SentQueue] \in Seq(Bufids)
        /\ c[SentQueue] # <<>>
    BY <1>1, <1>4, <1>9
  <2>2. 1 \in 1 .. Len(c[SentQueue])
    BY <2>1
  <2> QED BY <2>1, <2>2, ElementsAre
<1> QED BY <1>10, <1>12, <1>13 DEF c, d

(* A cycle keeps the ownership.                                            *)
LEMMA OwnershipStep ==
  ASSUME TypeOK, IInv, NEW id \in PortIds \cup {NoBufid}, NEW type \in Queues, Cycle(id, type)
  PROVE  Ownership'
<1> USE ConstantFacts DEF IInv
<1> DEFINE E == Elements(AllContents)
           F == Elements(AllContents')
<1>1. /\ AllDistinct(AllContents')
      /\ F = (E \ {SentId}) \cup (IF rv_queue' = NoQueue THEN {} ELSE {id})
      /\ SentId # NoBufid => SentId \in E
  BY ContentsStep
<1>2. rv_queue' # NoQueue => id \in PortIds /\ id \notin owned
  BY Arrival
<1>3. E \cap WithTx = {} /\ E \cup WithTx \subseteq owned
  BY DEF Ownership
<1>4. owned \subseteq Bufids /\ NoBufid \notin owned
  BY DEF TypeOK
<1>5. owned' = (owned \cup ({id} \ {NoBufid})) \ (IF tx_pkt' = NoBufid THEN {tx_pkt} ELSE {})
  BY DEF Cycle, History
<1>6. WithTx' = {tx_cache', tx_pkt'} \ {NoBufid} /\ WithTx = {tx_cache, tx_pkt} \ {NoBufid}
  BY DEF WithTx
<1>7. tx_cache' = IF SentId # NoBufid THEN SentId ELSE IF o_pkt_bufid_ack THEN NoBufid ELSE tx_cache
  BY DEF Cycle, NetworkTx, CacheId
<1>8. tx_pkt' \in {tx_pkt, NoBufid} \/ (tx_pkt = NoBufid /\ tx_pkt' = tx_cache)
  BY DEF Cycle, NetworkTx, StartPacket, SendPacket, EndPacket
<1>9. SentId # NoBufid => tx_cache = NoBufid
  BY DEF Handshake, Active, SentId
<1>10. tx_cache # NoBufid /\ ~o_pkt_bufid_ack => tx_pkt # tx_cache
  BY DEF Handshake
<1> HIDE DEF E, F, IInv
<1>11. F \cap WithTx' = {}
  BY <1>1, <1>2, <1>3, <1>6, <1>7, <1>8, <1>9
<1>12. F \subseteq owned'
  BY <1>1, <1>2, <1>3, <1>4, <1>5, <1>6
<1>13. WithTx' \subseteq owned'
  <2>1. tx_cache' # NoBufid => tx_cache' \in owned /\ (tx_pkt' = NoBufid => tx_cache' # tx_pkt)
    BY <1>1, <1>3, <1>6, <1>7, <1>10
  <2>2. tx_pkt' # NoBufid => tx_pkt' \in owned
    BY <1>3, <1>6, <1>8
  <2> QED BY <1>5, <1>6, <2>1, <2>2
<1> QED BY <1>1, <1>11, <1>12, <1>13 DEF Ownership, E, F

(* The invariant holds after reset.                                        *)
LEMMA InitIInv == Init => IInv
<1> SUFFICES ASSUME Init PROVE IInv
  OBVIOUS
<1> USE ConstantFacts
<1>1. TypeOK
  BY InitType
<1>2. \A q \in Queues : rv_queue_count[q] = 0 /\ rv_queue # q /\ ov_queue_id # q
  BY DEF Init, NiqInit
<1>3. /\ ~Active /\ Stages /\ ov_osc_state = "IDLE_S" /\ tx_cache = NoBufid /\ tx_pkt = NoBufid
      /\ ~o_pkt_bufid_ack /\ rv_pkt_bufid_delay = NoBufid /\ nqm_state = "IDLE_S"
      /\ ~o_queue_rdata_valid /\ owned = {}
  BY DEF Init, ScheduleInit, Active, Stages
<1>4. Handshake
  BY <1>3 DEF Handshake
<1>5. Tails /\ Writes
  BY <1>2 DEF Tails, Writes
<1>6. Reads
  BY <1>3 DEF Reads
<1>7. Ownership
  <2>1. \A q \in Queues : AllContents[q] = Contents(q) /\ Len(Contents(q)) = 0
    BY <1>1, <1>2, ContentsFacts DEF AllContents
  <2>2. AllDistinct(AllContents)
    BY <2>1 DEF AllDistinct
  <2>3. Elements(AllContents) = {}
    BY <2>1, ElementsAre
  <2>4. WithTx = {}
    BY <1>3 DEF WithTx
  <2> QED BY <2>2, <2>3, <2>4 DEF Ownership
<1> QED BY <1>4, <1>5, <1>6, <1>7 DEF IInv

(* When no register changes the queues do not.                             *)
LEMMA StutterContents ==
  ASSUME UNCHANGED portVars
  PROVE  \A q \in Queues : Linked(q)' = Linked(q) /\ Contents(q)' = Contents(q)
<1>1. \A q \in Queues : Linked(q)' = Linked(q)
  BY DEF portVars, niqVars, vqmVars, nqmVars, Linked, HeadNow, Word
<1> QED BY <1>1 DEF Contents, portVars, niqVars

(* A stutter keeps the invariant,                                          *)
LEMMA StutterIInv == IInv /\ UNCHANGED portVars => IInv'
<1> SUFFICES ASSUME IInv, UNCHANGED portVars PROVE IInv'
  OBVIOUS
<1> USE DEF IInv, portVars, niqVars, gateVars, oscVars, vqmVars, nqmVars, txVars
<1>1. \A q \in Queues : Linked(q)' = Linked(q) /\ Contents(q)' = Contents(q)
  BY StutterContents
<1>2. Active' = Active /\ Stages' = Stages /\ WithTx' = WithTx
  BY DEF Active, Stages, WithTx
<1>3. Handshake'
  BY <1>2 DEF Handshake
<1>4. Tails'
  BY <1>1 DEF Tails
<1>5. Writes'
  BY <1>1 DEF Writes
<1>6. Reads'
  BY <1>2 DEF Reads
<1>7. AllContents' = AllContents
  BY <1>1 DEF AllContents
<1>8. Ownership'
  BY <1>2, <1>7 DEF Ownership
<1> QED BY <1>3, <1>4, <1>5, <1>6, <1>8

(* and so does every step.                                                 *)
LEMMA NextIInv == TypeOK /\ IInv /\ [Tick]_portVars => IInv'
<1> SUFFICES ASSUME TypeOK, IInv, [Tick]_portVars PROVE IInv'
  OBVIOUS
<1>1. CASE Tick
  <2>1. PICK id \in PortIds \cup {NoBufid}, type \in Queues : Cycle(id, type)
    BY <1>1, TickIsCycle
  <2>2. Handshake'
    BY <2>1, SentApart, HandshakeStep DEF IInv
  <2>3. Tails' /\ Writes' /\ Reads'
    BY <2>1, TailsStep, WritesStep, ReadsStep
  <2>4. Ownership'
    BY <2>1, OwnershipStep
  <2> QED BY <2>2, <2>3, <2>4 DEF IInv
<1>2. CASE UNCHANGED portVars
  BY <1>2, StutterIInv
<1> QED BY <1>1, <1>2

(* The pointers of the queue memory are right in every state, for any      *)
(* number of ids and queues, any gate list and any modes: counts, heads,   *)
(* tails and words describe lists of distinct ids, whichever registers are *)
(* a cycle late.                                                           *)
THEOREM PointersCorrect == Spec => []IInv
<1>1. TypeOK /\ IInv /\ [Tick]_portVars => TypeOK' /\ IInv'
  BY NextType, NextIInv
<1> QED BY <1>1, InitType, InitIInv, PTL DEF Spec

-----------------------------------------------------------------------------
(***************************************************************************)
(* Nothing is lost.                                                        *)
(***************************************************************************)

(* An id of a queue was there before or just arrived.                      *)
LEMMA ContentsElement ==
  ASSUME TypeOK, IInv, NEW id, NEW type \in Queues, id \in PortIds \cup {NoBufid},
         Cycle(id, type), NEW q \in Queues, NEW i \in 1 .. Len(Contents(q)')
  PROVE  \/ \E j \in 1 .. Len(Contents(q)) : Contents(q)'[i] = Contents(q)[j]
         \/ rv_queue' = q /\ Contents(q)'[i] = id
<1> DEFINE c == Contents(q)
           d == Contents(q)'
           s == IF q = SentQueue THEN Tail(c) ELSE c
<1>1. c \in Seq(Bufids) /\ (q = SentQueue => c # <<>>)
      /\ d = s \o (IF rv_queue' = q THEN <<rv_bufid_cache'>> ELSE <<>>)
  BY ContentsFacts, ContentsAfter
<1>2. rv_queue' = q => rv_bufid_cache' = id /\ id \in Bufids
  BY Arrival, ConstantFacts
<1>3. i \in 1 .. Len(d)
  OBVIOUS
<1> HIDE DEF c, d
<1>4. s \in Seq(Bufids) /\ \A k \in 1 .. Len(s) : \E j \in 1 .. Len(c) : s[k] = c[j]
  <2>1. CASE q = SentQueue
    <3>1. /\ Tail(c) \in Seq(Bufids) /\ Len(Tail(c)) = Len(c) - 1 /\ Len(c) \in Nat
          /\ \A k \in 1 .. Len(Tail(c)) : Tail(c)[k] = c[k + 1]
      BY <1>1, <2>1, HeadTailProperties
    <3>2. \A k \in 1 .. Len(Tail(c)) : k + 1 \in 1 .. Len(c)
      BY <3>1
    <3> QED BY <2>1, <3>1, <3>2
  <2>2. CASE q # SentQueue
    BY <1>1, <2>2
  <2> QED BY <2>1, <2>2
<1> HIDE DEF s
<1>5. CASE rv_queue' = q
  <2>1. d = s \o <<id>> /\ <<id>> \in Seq(Bufids) /\ Len(<<id>>) = 1
    BY <1>1, <1>2, <1>5
  <2>2. Len(s) \in Nat /\ Len(d) = Len(s) + 1 /\ (\A k \in 1 .. Len(s) : d[k] = s[k])
        /\ d[Len(s) + 1] = id
    BY <1>2, <1>4, <1>5, <2>1
  <2>3. i \in 1 .. Len(s) \/ i = Len(s) + 1
    BY <1>3, <2>2
  <2> QED BY <1>4, <1>5, <2>2, <2>3 DEF c, d
<1>6. CASE rv_queue' # q
  <2>1. d = s
    BY <1>1, <1>4, <1>6
  <2> QED BY <1>3, <1>4, <2>1 DEF c, d
<1> QED BY <1>5, <1>6

(* With one configured mode a cycle loses no id.                           *)
LEMMA CompleteStep ==
  ASSUME NEW m, Modes = {m}, TypeOK, IInv, Gates, Complete, [Tick]_portVars
  PROVE  Gates' /\ Complete'
<1> USE ConstantFacts
<1>1. CASE Tick
  <2>1. PICK id \in PortIds \cup {NoBufid}, type \in Queues : Cycle(id, type)
    BY <1>1, TickIsCycle
  <2>2. i_qbv_or_qch = m /\ i_qbv_or_qch' = m /\ m \in BOOLEAN
    BY <2>1, ModesAssumption DEF TypeOK, Cycle
  <2>3. Gates'
    BY <2>1, <2>2 DEF Gates, Cycle, GateCycle, InGate, TypeOK, GateTypeOK
  <2>4. id # NoBufid => rv_queue' # NoQueue
    <3> SUFFICES ASSUME id # NoBufid PROVE rv_queue' # NoQueue
      OBVIOUS
    <3>1. in_gate # {} /\ rv_queue' = SelectedQueue(type, i_qbv_or_qch, in_gate)
      BY <2>1 DEF Cycle, Arriving, InputQueueCycle, SelectQueue
    <3> QED BY <3>1 DEF Gates, SelectedQueue
  <2> DEFINE E == Elements(AllContents)
             F == Elements(AllContents')
  <2>5. F = (E \ {SentId}) \cup (IF rv_queue' = NoQueue THEN {} ELSE {id})
    BY <2>1, ContentsStep
  <2>6. /\ tx_cache' = IF SentId # NoBufid THEN SentId
                       ELSE IF o_pkt_bufid_ack THEN NoBufid ELSE tx_cache
        /\ owned' = (owned \cup ({id} \ {NoBufid})) \ (IF tx_pkt' = NoBufid THEN {tx_pkt} ELSE {})
        /\ tx_pkt' # NoBufid /\ tx_pkt # NoBufid => tx_pkt' = tx_pkt
        /\ o_pkt_bufid_ack /\ tx_pkt # NoBufid => tx_pkt' = tx_pkt
    BY <2>1 DEF Cycle, History, NetworkTx, CacheId, StartPacket, SendPacket, EndPacket
  <2>7. /\ SentId # NoBufid => tx_cache = NoBufid
        /\ o_pkt_bufid_ack => tx_cache # NoBufid /\ tx_pkt = tx_cache
    BY DEF IInv, Handshake, Active, SentId
  <2>8. owned \subseteq E \cup WithTx /\ WithTx = {tx_cache, tx_pkt} \ {NoBufid}
        /\ WithTx' = {tx_cache', tx_pkt'} \ {NoBufid} /\ NoBufid \notin owned
    BY DEF Complete, WithTx, TypeOK
  <2> HIDE DEF E, F
  <2>9. ASSUME NEW a \in owned' PROVE a \in F \cup WithTx'
    <3>1. CASE a = id /\ id # NoBufid
      BY <2>4, <2>5, <3>1
    <3>2. CASE a \in E
      BY <2>5, <2>6, <2>8, <3>2
    <3>3. CASE a = tx_cache /\ a # NoBufid
      BY <2>6, <2>7, <2>8, <3>3
    <3>4. CASE a = tx_pkt /\ a # NoBufid
      BY <2>6, <2>8, <2>9, <3>4
    <3> QED BY <2>6, <2>8, <2>9, <3>1, <3>2, <3>3, <3>4
  <2>10. Complete'
    BY <2>9 DEF Complete, F
  <2> QED BY <2>3, <2>10
<1>2. CASE UNCHANGED portVars
  <2>1. AllContents' = AllContents
    BY <1>2, StutterContents DEF AllContents
  <2> QED BY <1>2, <2>1 DEF Gates, Complete, WithTx, portVars, gateVars, txVars
<1> QED BY <1>1, <1>2

(* The invariant and the completeness are Accounted.                       *)
LEMMA AccountedHolds ==
  ASSUME TypeOK, IInv, Complete
  PROVE  Accounted
<1> USE ConstantFacts DEF IInv
<1> DEFINE J == {IdAt(e) : e \in InQueues}
<1>1. \A q \in Queues : /\ AllContents[q] = Contents(q)
                        /\ Len(Contents(q)) \in Nat /\ Len(Contents(q)) < NumBufids
  BY CountBound, ContentsFacts DEF AllContents
<1>2. \A e : e \in InQueues <=> \E q \in Queues : \E i \in 1 .. Len(Contents(q)) : e = <<q, i>>
  <2>1. ASSUME NEW e \in InQueues
        PROVE  \E q \in Queues : \E i \in 1 .. Len(Contents(q)) : e = <<q, i>>
    <3>1. e[1] \in Queues /\ e[2] \in 1 .. NumBufids /\ e = <<e[1], e[2]>>
          /\ e[2] <= Len(Contents(e[1]))
      BY DEF InQueues
    <3>2. e[2] \in 1 .. Len(Contents(e[1]))
      BY <1>1, <3>1
    <3> QED BY <3>1, <3>2
  <2>2. ASSUME NEW q \in Queues, NEW i \in 1 .. Len(Contents(q))
        PROVE  <<q, i>> \in InQueues
    <3>1. i \in 1 .. NumBufids /\ i <= Len(Contents(q))
      BY <1>1
    <3> QED BY <3>1 DEF InQueues
  <2> QED BY <2>1, <2>2
<1>3. \A q \in Queues : \A i \in 1 .. Len(Contents(q)) : IdAt(<<q, i>>) = Contents(q)[i]
  BY DEF IdAt
<1>4. J = Elements(AllContents)
  <2>1. ASSUME NEW a \in J PROVE a \in Elements(AllContents)
    <3>1. PICK e \in InQueues : a = IdAt(e)
      OBVIOUS
    <3>2. PICK q \in Queues : \E i \in 1 .. Len(Contents(q)) : e = <<q, i>>
      BY <1>2
    <3> QED BY <1>1, <1>3, <3>1, <3>2, ElementsAre
  <2>2. ASSUME NEW a \in Elements(AllContents) PROVE a \in J
    <3>1. PICK q \in Queues : \E i \in 1 .. Len(AllContents[q]) : a = AllContents[q][i]
      BY ElementsAre
    <3>2. PICK i \in 1 .. Len(Contents(q)) : a = Contents(q)[i]
      BY <1>1, <3>1
    <3> QED BY <1>2, <1>3, <3>2
  <2> QED BY <2>1, <2>2
<1>5. J \cup WithTx = owned /\ J \cap WithTx = {}
  BY <1>4 DEF Ownership, Complete
<1>6. IsFiniteSet(InQueues)
  <2>1. IsFiniteSet(Queues)
    BY FS_Interval DEF Queues
  <2>2. IsFiniteSet(1 .. NumBufids)
    BY FS_Interval
  <2>3. IsFiniteSet(Queues \X (1 .. NumBufids))
    BY <2>1, <2>2, FS_Product
  <2>4. InQueues \in SUBSET (Queues \X (1 .. NumBufids))
    BY DEF InQueues
  <2> QED BY <2>3, <2>4, FS_Subset
<1>7. \A e, f \in InQueues : IdAt(e) = IdAt(f) => e = f
  <2> SUFFICES ASSUME NEW e \in InQueues, NEW f \in InQueues, IdAt(e) = IdAt(f)
               PROVE  e = f
    OBVIOUS
  <2>1. PICK q \in Queues : \E i \in 1 .. Len(Contents(q)) : e = <<q, i>>
    BY <1>2
  <2>2. PICK i \in 1 .. Len(Contents(q)) : e = <<q, i>>
    BY <2>1
  <2>3. PICK r \in Queues : \E j \in 1 .. Len(Contents(r)) : f = <<r, j>>
    BY <1>2
  <2>4. PICK j \in 1 .. Len(Contents(r)) : f = <<r, j>>
    BY <2>3
  <2>5. Contents(q)[i] = Contents(r)[j]
    BY <1>3, <2>2, <2>4
  <2> QED BY <2>2, <2>4, <2>5, DistinctContents
<1>8. Cardinality(J) = Cardinality(InQueues)
  <2> DEFINE g == [e \in InQueues |-> IdAt(e)]
  <2>1. g \in Bijection(InQueues, J)
    BY <1>7 DEF Bijection, Injection, IsInjective, Surjection
  <2>2. ExistsBijection(InQueues, J)
    BY <2>1 DEF ExistsBijection
  <2> HIDE DEF J
  <2> QED BY <1>6, <2>2, FS_Bijection
<1> QED BY <1>5, <1>8 DEF Accounted

(* With one configured mode (qbv or qch) every id that was given to the    *)
(* port and not released is in exactly one place: one position of one      *)
(* queue, or the transmitter.  When the mode changes under traffic a packet*)
(* can find two input gates open and is dropped, so the hypothesis is      *)
(* needed.                                                                 *)
THEOREM AccountedInvariant ==
  ASSUME NEW m, Modes = {m}
  PROVE  Spec => []Accounted
<1>1. Init => Gates /\ Complete
  BY DEF Init, GateInit, Gates, Complete
<1>2. TypeOK /\ IInv /\ Gates /\ Complete /\ [Tick]_portVars => Gates' /\ Complete'
  BY CompleteStep
<1>3. TypeOK /\ IInv /\ Complete => Accounted
  BY AccountedHolds
<1> QED BY <1>1, <1>2, <1>3, TypeCorrect, PointersCorrect, PTL DEF Spec

-----------------------------------------------------------------------------
(***************************************************************************)
(* Cyclic queuing.                                                         *)
(***************************************************************************)

(* A cycle keeps what the slots say of the queues.                         *)
LEMMA SlotsStep ==
  ASSUME Modes = {TRUE}, {0, 1} \subseteq TsTypes, TypeOK, IInv, Slots, [Tick]_portVars
  PROVE  Slots'
<1> USE ConstantFacts
<1>1. CASE Tick
  <2>1. PICK id \in PortIds \cup {NoBufid}, type \in Queues : Cycle(id, type)
    BY <1>1, TickIsCycle
  <2>2. i_qbv_or_qch = TRUE
    BY DEF TypeOK
  <2>3. /\ gc_state' = "IDLE_S" /\ iv_time_slot \in {0, 1}
        /\ in_gate' = {iv_time_slot} /\ out_gate' = Queues \ {iv_time_slot}
    BY <2>1, <2>2 DEF Slots, Cycle, GateCycle, InGate, OutGateCycle, QchOutGate, TypeOK, GateTypeOK
  <2>4. slot_ids' = IF in_gate' = in_gate THEN slot_ids \cup ({id} \ {NoBufid}) ELSE {}
    BY <2>1 DEF Cycle, History
  <2>5. ASSUME NEW q \in Queues, NEW j \in 1 .. Len(Contents(q)), Contents(q)[j] \notin slot_ids
        PROVE  Contents(q)[j] \notin slot_ids'
    <3>1. Contents(q)[j] \in owned
      BY OwnedElements DEF IInv
    <3>2. id = NoBufid \/ id \notin owned
      BY <2>1 DEF Cycle, Arriving
    <3> QED BY <2>4, <2>5, <3>1, <3>2
  <2>6. ASSUME NEW s \in {0, 1}, in_gate' = {s}, NEW i \in 1 .. Len(Contents(1 - s)')
        PROVE  Contents(1 - s)'[i] \notin slot_ids'
    <3>1. 1 - s \in {0, 1} /\ 1 - s \in Queues /\ 1 - s # s
      OBVIOUS
    <3>2. CASE in_gate' # in_gate
      BY <2>4, <3>2
    <3>3. CASE in_gate' = in_gate
      <4>1. \A j \in 1 .. Len(Contents(1 - s)) : Contents(1 - s)[j] \notin slot_ids
        BY <2>6, <3>3 DEF Slots
      <4>2. rv_queue' # 1 - s
        <5>1. rv_queue' = NoQueue \/ rv_queue' = SelectedQueue(type, TRUE, {s})
          BY <2>1, <2>2, <2>6, <3>3 DEF Cycle, InputQueueCycle, SelectQueue
        <5>2. SelectedQueue(type, TRUE, {s}) # 1 - s
          <6>1. CASE type \in TsTypes
            <7>1. ({s} = {0} <=> s = 0) /\ ({s} = {1} <=> s = 1)
              OBVIOUS
            <7> QED BY <3>1, <6>1, <7>1 DEF SelectedQueue
          <6>2. CASE type \notin TsTypes
            BY <3>1, <6>2 DEF SelectedQueue
          <6> QED BY <6>1, <6>2
        <5> QED BY <3>1, <5>1, <5>2
      <4> DEFINE q == 1 - s
      <4>3. q \in Queues /\ rv_queue' # q /\ i \in 1 .. Len(Contents(q)')
            /\ (\A j \in 1 .. Len(Contents(q)) : Contents(q)[j] \notin slot_ids)
        BY <3>1, <4>1, <4>2
      <4> HIDE DEF q
      <4>4. PICK j \in 1 .. Len(Contents(q)) : Contents(q)'[i] = Contents(q)[j]
        BY <2>1, <4>3, ContentsElement
      <4>5. Contents(q)'[i] \notin slot_ids'
        BY <2>5, <4>3, <4>4
      <4> QED BY <4>5 DEF q
    <3> QED BY <3>2, <3>3
  <2>7. ASSUME Active', ov_schdule_queue' \in {0, 1}
        PROVE  Contents(ov_schdule_queue)'[1] \notin slot_ids'
    <3> DEFINE p == ov_schdule_queue'
    <3>1. /\ p \in Queues /\ rv_queue_count[p] > 0 /\ ~o_queue_rdata_valid
          /\ \/ o_schdule_queue_wr' /\ Picked(p)
             \/ Active /\ ~o_schdule_queue_wr' /\ p = ov_schdule_queue
      BY <2>1, <2>7, ActiveAfter
    <3>2. Contents(p)[1] \notin slot_ids
      <4>1. CASE Picked(p)
        <5>1. p \in out_gate
          BY <4>1 DEF Picked, Ready
        <5>2. PICK s \in {0, 1} : in_gate = {s} /\ out_gate = Queues \ {s}
          BY <5>1 DEF Slots
        <5>3. p = 1 - s
          BY <2>7, <5>1, <5>2
        <5>4. \A j \in 1 .. Len(Contents(p)) : Contents(p)[j] \notin slot_ids
          BY <5>2, <5>3 DEF Slots
        <5>5. 1 \in 1 .. rv_queue_count[p]
          BY <3>1, LinkedFacts
        <5> QED BY <3>1, <5>4, <5>5, LinkedInContents
      <4>2. CASE Active /\ p = ov_schdule_queue
        BY <2>7, <4>2 DEF Slots
      <4> QED BY <3>1, <4>1, <4>2
    <3>3. 1 \in 1 .. Len(Contents(p)) /\ Contents(p) \in Seq(Bufids)
      <4>1. 1 \in 1 .. rv_queue_count[p]
        BY <3>1, LinkedFacts
      <4> QED BY <3>1, <4>1, LinkedInContents, ContentsFacts
    <3>4. Contents(p)[1] \notin slot_ids'
      BY <2>5, <3>1, <3>2, <3>3
    <3>5. p # SentQueue
      BY <3>1 DEF SentQueue
    <3>6. \A q \in Queues : q # SentQueue =>
            Contents(q)' = Contents(q) \o (IF rv_queue' = q THEN <<rv_bufid_cache'>> ELSE <<>>)
      BY <2>1, ContentsAfter
    <3>7. rv_bufid_cache' \in Bufids
      BY <2>1, CycleType DEF TypeOK, NiqTypeOK
    <3>8. \A q \in Queues : q # SentQueue /\ 1 \in 1 .. Len(Contents(q)) /\ Contents(q) \in Seq(Bufids)
            => Contents(q)'[1] = Contents(q)[1]
      BY <3>6, <3>7
    <3>9. Contents(ov_schdule_queue)'[1] = Contents(p)[1]
      <4>1. \A q \in Queues : q = p => Contents(ov_schdule_queue)' = Contents(q)'
        BY DEF Contents, Linked, HeadNow
      <4>2. \E q \in Queues : q = p
        BY <3>1
      <4>3. PICK q \in Queues : q = p
        BY <4>2
      <4> QED BY <3>3, <3>5, <3>8, <4>1, <4>3
    <3> QED BY <3>4, <3>9
  <2> QED BY <2>3, <2>6, <2>7 DEF Slots
<1>2. CASE UNCHANGED portVars
  <2>1. \A q \in Queues : Contents(q)' = Contents(q)
    BY <1>2, StutterContents
  <2>2. UNCHANGED <<gc_state, in_gate, out_gate, slot_ids, ov_schdule_queue>> /\ Active' = Active
    BY <1>2 DEF portVars, gateVars, oscVars, vqmVars, nqmVars, Active
  <2>3. ASSUME Active, ov_schdule_queue \in {0, 1}
        PROVE  Contents(ov_schdule_queue)' = Contents(ov_schdule_queue)
    <3>1. PICK q \in Queues : q = ov_schdule_queue
      BY <2>3
    <3>2. Contents(ov_schdule_queue)' = Contents(q)'
      BY <2>2, <3>1 DEF Contents, Linked, HeadNow
    <3> QED BY <2>1, <3>1, <3>2
  <2>4. \A s \in {0, 1} : Contents(1 - s)' = Contents(1 - s)
    <3>1. \A s \in {0, 1} : 1 - s \in Queues
      OBVIOUS
    <3> QED BY <2>1, <3>1
  <2> QED BY <2>2, <2>3, <2>4 DEF Slots
<1> QED BY <1>1, <1>2

(* Cyclic queuing and forwarding: under qch no time-sensitive packet leaves*)
(* in the slot in which it arrived, however late in a slot its queue was   *)
(* picked.  Types 0 and 1 must be time-sensitive, as in the source; another*)
(* packet in queue 0 or 1 would not follow the gates.                      *)
THEOREM CyclicQueuing ==
  ASSUME Modes = {TRUE}, {0, 1} \subseteq TsTypes
  PROVE  Spec => CqfHold
<1>1. Init => Slots
  <2> SUFFICES ASSUME Init PROVE Slots
    OBVIOUS
  <2>1. gc_state = "IDLE_S" /\ in_gate = {} /\ out_gate = {} /\ slot_ids = {} /\ ~Active
    BY DEF Init, GateInit, ScheduleInit, Active
  <2> QED BY <2>1 DEF Slots
<1>2. TypeOK /\ IInv /\ Slots /\ [Tick]_portVars => Slots'
  BY SlotsStep
<1>3. TypeOK /\ IInv /\ Slots =>
        (SentId # NoBufid /\ ov_schdule_queue \in {0, 1} => SentId \notin slot_ids)
  <2> SUFFICES ASSUME TypeOK, IInv, Slots, SentId # NoBufid, ov_schdule_queue \in {0, 1}
               PROVE  SentId \notin slot_ids
    OBVIOUS
  <2>1. o_queue_rdata_valid
    BY DEF SentId
  <2> QED BY <2>1, SentHead DEF IInv, Slots
<1> QED BY <1>1, <1>2, <1>3, TypeCorrect, PointersCorrect, PTL DEF Spec, CqfHold

-----------------------------------------------------------------------------
(***************************************************************************)
(* The refinement.                                                         *)
(***************************************************************************)

(* After reset the abstract queues are empty.                              *)
LEMMA InitQueues == Init => ClassQ!ClassInit
<1> SUFFICES ASSUME Init PROVE ClassQ!ClassInit
  OBVIOUS
<1>1. TypeOK
  BY InitType
<1>2. \A q \in Queues : rv_queue_count[q] = 0 /\ rv_queue # q
  BY ConstantFacts DEF Init, NiqInit
<1>3. \A q \in Queues : Contents(q) = <<>>
  <2> SUFFICES ASSUME NEW q \in Queues PROVE Contents(q) = <<>>
    OBVIOUS
  <2>1. Contents(q) \in Seq(Bufids) /\ Len(Contents(q)) = 0
    BY <1>1, <1>2, ContentsFacts
  <2> QED BY <2>1
<1>4. tx_cache = NoBufid
  BY DEF Init
<1> QED BY <1>3, <1>4 DEF ClassQ!ClassInit

(* A cycle is a step of the abstract queues: an id that becomes visible to *)
(* the transmitter is the head of a queue that the same step takes it from.*)
LEMMA NextQueues ==
  ASSUME TypeOK, IInv, Tick
  PROVE  ClassQ!ClassNext
<1> USE ConstantFacts
<1>1. PICK id \in PortIds \cup {NoBufid}, type \in Queues : Cycle(id, type)
  BY TickIsCycle
<1> DEFINE c == [q \in Queues |-> Contents(q)]
           d == [q \in Queues |-> Contents(q)']
           in == IF rv_queue' = NoQueue THEN 0 ELSE rv_queue'
           arrival == IF rv_queue' = NoQueue THEN <<>> ELSE <<id>>
           handed == IF o_pkt_bufid_ack THEN NoBufid ELSE tx_cache
           handed2 == IF o_pkt_bufid_ack' THEN NoBufid ELSE tx_cache'
<1>2. in \in Queues /\ arrival \in {<<>>} \cup {<<i>> : i \in PortIds}
      /\ \A q \in Queues : (IF rv_queue' = q THEN <<rv_bufid_cache'>> ELSE <<>>)
                           = (IF q = in THEN arrival ELSE <<>>)
  BY <1>1, Arrival
<1>3. \A q \in Queues : d[q] = (IF q = SentQueue THEN Tail(c[q]) ELSE c[q])
                               \o (IF q = in THEN arrival ELSE <<>>)
  BY <1>1, <1>2, ContentsAfter
<1>4. /\ tx_cache' = IF SentId # NoBufid THEN SentId
                     ELSE IF o_pkt_bufid_ack THEN NoBufid ELSE tx_cache
      /\ o_pkt_bufid_ack' => tx_cache # NoBufid
  BY <1>1 DEF Cycle, NetworkTx, CacheId, StartPacket, SendPacket, EndPacket
<1> HIDE DEF in, arrival
<1>5. CASE o_queue_rdata_valid
  <2> DEFINE out == ov_schdule_queue
  <2>1. /\ out \in Queues /\ SentQueue = out /\ SentId # NoBufid /\ Active
        /\ c[out] # <<>> /\ Contents(out)[1] = SentId
    BY <1>1, <1>5, SentHead, ActiveHead, ContentsAfter DEF IInv
  <2>2. tx_cache = NoBufid
    BY <2>1 DEF IInv, Handshake
  <2>3. handed = NoBufid /\ handed2 = SentId
    BY <1>4, <2>1, <2>2
  <2>4. Head(c[out]) = SentId
    <3>1. Contents(out) \in Seq(Bufids) /\ c[out] = Contents(out)
      BY <2>1, ContentsFacts
    <3> QED BY <2>1, <3>1
  <2>5. d = [q \in Queues |-> (IF q \in {out} THEN Tail(c[q]) ELSE c[q])
                              \o (IF q = in THEN arrival ELSE <<>>)]
    BY <1>3, <2>1
  <2>6. ClassQ!HandOver(in, arrival, out)
    BY <2>1, <2>3, <2>4, <2>5 DEF ClassQ!HandOver, ClassQ!Step
  <2> QED BY <1>2, <2>1, <2>6 DEF ClassQ!ClassNext, ClassQ!Arrivals
<1>6. CASE ~o_queue_rdata_valid
  <2>1. SentId = NoBufid /\ SentQueue \notin Queues
    BY <1>6 DEF SentId, SentQueue
  <2>2. handed2 \in {handed, NoBufid}
    BY <1>4, <2>1
  <2>3. d = [q \in Queues |-> (IF q \in {} THEN Tail(c[q]) ELSE c[q])
                              \o (IF q = in THEN arrival ELSE <<>>)]
    BY <1>3, <2>1
  <2>4. ClassQ!Wait(in, arrival)
    BY <2>2, <2>3 DEF ClassQ!Wait, ClassQ!Step
  <2> QED BY <1>2, <2>4 DEF ClassQ!ClassNext, ClassQ!Arrivals
<1> QED BY <1>5, <1>6

(* The linked lists implement first-in first-out queues: every cycle, with *)
(* any overlap of arrival, link write, read and bypass, and with any change*)
(* of the mode, takes at most one head and appends at most one id.         *)
THEOREM QueuesImplemented == Spec => ImplementsQueues
<1>1. Init => ClassQ!ClassInit
  BY InitQueues
<1>2. TypeOK /\ IInv /\ [Tick]_portVars => [ClassQ!ClassNext]_ClassQ!classVars
  <2> SUFFICES ASSUME TypeOK, IInv, [Tick]_portVars
               PROVE  [ClassQ!ClassNext]_ClassQ!classVars
    OBVIOUS
  <2>1. CASE Tick
    BY <2>1, NextQueues
  <2>2. CASE UNCHANGED portVars
    <3>1. \A q \in Queues : Contents(q)' = Contents(q)
      BY <2>2, StutterContents
    <3>2. tx_cache' = tx_cache /\ o_pkt_bufid_ack' = o_pkt_bufid_ack
      BY <2>2 DEF portVars, txVars
    <3> QED BY <3>1, <3>2 DEF ClassQ!classVars
  <2> QED BY <2>1, <2>2
<1> QED BY <1>1, <1>2, TypeCorrect, PointersCorrect, PTL
       DEF Spec, ImplementsQueues, ClassQ!ClassSpec

============================================================================
