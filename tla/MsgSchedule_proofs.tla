------------------------- MODULE MsgSchedule_proofs -------------------------
(***************************************************************************)
(* Proofs about the life of a message, for any number of buffers, queues   *)
(* of any capacity, any packets and either role of PTP.                    *)
(*                                                                         *)
(* A place is where a buffer can be: a queue, the hand of a thread, or the *)
(* free buffers.  Every step moves a buffer from one place to another, or  *)
(* forgets it; so no buffer is ever in two places.                         *)
(*                                                                         *)
(* The messages of one kind all pass the same places, and so a place tells *)
(* how far a message is: its stage.  The second half of the module proves  *)
(* that of two messages of one kind, the older is at a later stage or      *)
(* before the other in a queue, and from that the order they are sent in.  *)
(***************************************************************************)
EXTENDS MsgSchedule, SequenceTheorems, FiniteSetTheorems, TLAPS

\* The places of a buffer: the queues, the hands of the threads, the free ones.
Place == ({"tx"} \X TxService) \cup ({"rx"} \X RxService) \cup ({"hand"} \X Thread)
             \cup {<<"rc", "queue">>, <<"free", "list">>}

\* The buffers in each.
at == [p \in Place |->
          IF p[1] = "tx" THEN Elements(txq[p[2]])
          ELSE IF p[1] = "rx" THEN Elements(rxq[p[2]])
          ELSE IF p[1] = "hand" THEN {hand[p[2]]} \ {None}
          ELSE IF p[1] = "rc" THEN Elements(rcq)
          ELSE free]

\* No buffer is in two places.
Apart == \A p, q \in Place : p # q => at[p] \cap at[q] = {}

\* The buffers that are somewhere.
Everywhere == {b \in Buffer : \E p \in Place : b \in at[p]}

\* None is twice in a queue.
Distinct(q) == \A i, j \in 1 .. Len(q) : q[i] = q[j] => i = j

QueuesTyped ==
    /\ txq \in [TxService -> Seq(Buffer)]
    /\ rxq \in [RxService -> Seq(Buffer)]
    /\ rcq \in Seq(Buffer)
    /\ free \subseteq Buffer
    /\ hand \in [Thread -> Buffer \cup {None}]

QueuesDistinct ==
    /\ \A s \in TxService : Distinct(txq[s])
    /\ \A s \in RxService : Distinct(rxq[s])
    /\ Distinct(rcq)

Home == QueuesTyped /\ QueuesDistinct /\ Apart

\* schedule_table has an entry for the key of b.
Keyed(src, type) == \E x \in Table : x[1] = src /\ x[2] = type
Known(b) == Keyed(msg[b].src, msg[b].type)

\* So it has for every message of another service than the data request one.
Routed ==
    /\ \A s \in TxService \ {"request"} : \A b \in Elements(txq[s]) : Known(b)
    /\ hand["scheduler"] # None /\ polled # 1 => Known(hand["scheduler"])

\* At the start of a pass nothing was routed yet.
FreshHit == polled = 1 => ~hit

Inv == TypeOK /\ Home /\ Routed /\ FreshHit

-----------------------------------------------------------------------------
(* Services and queues                                                       *)

LEMMA Services ==
    /\ TxService = {"request", "ptp", "map", "nmac", "timer", "regroup", "arp"}
    /\ RxService = {"response", "ptp", "map", "regroup", "arp"}
    /\ Thread = {"response", "ptp", "map", "regroup", "arp", "scheduler"}
    /\ Len(TxOrder) = 7
    /\ \A i \in 1 .. 7 : TxOrder[i] \in TxService /\ (TxOrder[i] = "request" => i = 1)
<1>1. Len(TxOrder) = 7
    BY DEF TxOrder
<1>2. \A i \in 1 .. 7 : i = 1 \/ i = 2 \/ i = 3 \/ i = 4 \/ i = 5 \/ i = 6 \/ i = 7
    OBVIOUS
<1>3. /\ TxOrder[1] = "request" /\ TxOrder[2] = "ptp" /\ TxOrder[3] = "map"
      /\ TxOrder[4] = "nmac" /\ TxOrder[5] = "timer" /\ TxOrder[6] = "regroup"
      /\ TxOrder[7] = "arp"
    BY DEF TxOrder
<1>4. TxService = {TxOrder[1], TxOrder[2], TxOrder[3], TxOrder[4], TxOrder[5], TxOrder[6], TxOrder[7]}
    BY <1>1, <1>2 DEF TxService
<1>5. \A i \in 1 .. 7 : TxOrder[i] \in TxService /\ (TxOrder[i] = "request" => i = 1)
    BY <1>1, <1>2, <1>3, <1>4
<1> QED BY <1>1, <1>3, <1>4, <1>5 DEF RxService, Thread

LEMMA TailFacts ==
    ASSUME NEW q \in Seq(Buffer), q # <<>>, Distinct(q)
    PROVE  /\ Tail(q) \in Seq(Buffer) /\ Len(Tail(q)) = Len(q) - 1 /\ Distinct(Tail(q))
           /\ Head(q) \in Buffer /\ Head(q) \in Elements(q)
           /\ Elements(Tail(q)) = Elements(q) \ {Head(q)}
<1>1. /\ Tail(q) \in Seq(Buffer) /\ Len(Tail(q)) = Len(q) - 1 /\ Head(q) \in Buffer
      /\ \A i \in 1 .. Len(Tail(q)) : Tail(q)[i] = q[i + 1]
    BY HeadTailProperties
<1>2. Len(q) \in Nat /\ Len(q) > 0 /\ Head(q) = q[1]
    OBVIOUS
<1>3. Distinct(Tail(q))
    BY <1>1, <1>2 DEF Distinct
<1>4. Elements(Tail(q)) \subseteq Elements(q) \ {Head(q)}
    BY <1>1, <1>2 DEF Distinct, Elements
<1>5. ASSUME NEW x \in Elements(q) \ {Head(q)} PROVE x \in Elements(Tail(q))
    <2>1. PICK i \in 1 .. Len(q) : q[i] = x
        BY DEF Elements
    <2>2. i # 1 /\ i - 1 \in 1 .. Len(Tail(q))
        BY <1>1, <1>2, <1>5, <2>1
    <2>3. Tail(q)[i - 1] = x
        BY <1>1, <2>1, <2>2
    <2> QED BY <2>2, <2>3 DEF Elements
<1> QED BY <1>1, <1>2, <1>3, <1>4, <1>5 DEF Elements

LEMMA AppendFacts ==
    ASSUME NEW q \in Seq(Buffer), NEW b \in Buffer
    PROVE  /\ Append(q, b) \in Seq(Buffer) /\ Len(Append(q, b)) = Len(q) + 1
           /\ Elements(Append(q, b)) = Elements(q) \cup {b}
           /\ (Distinct(q) /\ b \notin Elements(q) => Distinct(Append(q, b)))
<1>1. /\ Append(q, b) \in Seq(Buffer) /\ Len(Append(q, b)) = Len(q) + 1
      /\ \A i \in 1 .. Len(q) : Append(q, b)[i] = q[i]
      /\ Append(q, b)[Len(q) + 1] = b /\ Len(q) \in Nat
    BY AppendProperties
<1>2. 1 .. Len(q) + 1 = (1 .. Len(q)) \cup {Len(q) + 1}
    BY <1>1
<1> QED BY <1>1, <1>2 DEF Elements, Distinct

-----------------------------------------------------------------------------
(* Places, and the moves between them                                        *)

\* What is where.
LEMMA AtFacts ==
    /\ \A s \in TxService : <<"tx", s>> \in Place /\ at[<<"tx", s>>] = Elements(txq[s])
    /\ \A s \in RxService : <<"rx", s>> \in Place /\ at[<<"rx", s>>] = Elements(rxq[s])
    /\ \A t \in Thread : <<"hand", t>> \in Place /\ at[<<"hand", t>>] = {hand[t]} \ {None}
    /\ <<"rc", "queue">> \in Place /\ at[<<"rc", "queue">>] = Elements(rcq)
    /\ <<"free", "list">> \in Place /\ at[<<"free", "list">>] = free
<1>1. \A s \in TxService : <<"tx", s>> \in Place
    BY DEF Place
<1>2. \A s \in RxService : <<"rx", s>> \in Place
    BY DEF Place
<1>3. \A t \in Thread : <<"hand", t>> \in Place
    BY DEF Place
<1>4. <<"rc", "queue">> \in Place /\ <<"free", "list">> \in Place
    BY DEF Place
<1> QED BY <1>1, <1>2, <1>3, <1>4 DEF at

\* The same of the next state.
LEMMA AtFactsNext ==
    /\ \A s \in TxService : at'[<<"tx", s>>] = Elements(txq'[s])
    /\ \A s \in RxService : at'[<<"rx", s>>] = Elements(rxq'[s])
    /\ \A t \in Thread : at'[<<"hand", t>>] = {hand'[t]} \ {None}
    /\ at'[<<"rc", "queue">>] = Elements(rcq')
    /\ at'[<<"free", "list">>] = free'
BY AtFacts DEF at

LEMMA Places ==
    ASSUME NEW p \in Place
    PROVE  \/ \E s \in TxService : p = <<"tx", s>>
           \/ \E s \in RxService : p = <<"rx", s>>
           \/ \E t \in Thread : p = <<"hand", t>>
           \/ p = <<"rc", "queue">>
           \/ p = <<"free", "list">>
BY DEF Place

\* The places that a step leaves alone.
Fixed(S) == \A r \in Place \ S : at'[r] = at[r]

\* A buffer that goes from one place to another is then in that one only.
LEMMA Moved ==
    ASSUME Apart, NEW p \in Place, NEW q \in Place, p # q, NEW b \in at[p],
           at'[p] = at[p] \ {b}, at'[q] = at[q] \cup {b}, Fixed({p, q})
    PROVE  Apart' /\ Everywhere \subseteq Everywhere'
<1>1. \A r \in Place : r # q => at'[r] \subseteq at[r]
    BY DEF Fixed
<1>2. \A r \in Place : b \in at'[r] => r = q
    BY DEF Apart, Fixed
<1>3. Apart'
    BY <1>1, <1>2 DEF Apart
<1>4. \A r \in Place : at[r] \subseteq at'[r] \cup {b}
    BY DEF Fixed
<1> QED BY <1>3, <1>4 DEF Everywhere

\* One that leaves its place for none.
LEMMA Gone ==
    ASSUME Apart, NEW p \in Place, NEW b,
           at'[p] = at[p] \ {b}, Fixed({p})
    PROVE  Apart' /\ Everywhere \subseteq Everywhere' \cup {b}
<1>1. \A r \in Place : at'[r] \subseteq at[r]
    BY DEF Fixed
<1>2. Apart'
    BY <1>1 DEF Apart
<1>3. \A r \in Place : at[r] \subseteq at'[r] \cup {b}
    BY DEF Fixed
<1> QED BY <1>2, <1>3 DEF Everywhere

\* A place of which nothing changed is fixed.
LEMMA Frame ==
    ASSUME NEW S,
           \A s \in TxService : txq'[s] = txq[s] \/ <<"tx", s>> \in S,
           \A s \in RxService : rxq'[s] = rxq[s] \/ <<"rx", s>> \in S,
           \A t \in Thread : hand'[t] = hand[t] \/ <<"hand", t>> \in S,
           rcq' = rcq \/ <<"rc", "queue">> \in S,
           free' = free \/ <<"free", "list">> \in S
    PROVE  Fixed(S)
<1> SUFFICES ASSUME NEW r \in Place, r \notin S PROVE at'[r] = at[r]
    BY DEF Fixed
<1>1. CASE \E s \in TxService : r = <<"tx", s>>
    <2>1. PICK s \in TxService : r = <<"tx", s>>
        BY <1>1
    <2>2. txq'[s] = txq[s]
        BY <2>1
    <2>3. at[r] = Elements(txq[s]) /\ at'[r] = Elements(txq'[s])
        BY <2>1, AtFacts, AtFactsNext
    <2> QED BY <2>2, <2>3
<1>2. CASE \E s \in RxService : r = <<"rx", s>>
    <2>1. PICK s \in RxService : r = <<"rx", s>>
        BY <1>2
    <2>2. rxq'[s] = rxq[s]
        BY <2>1
    <2>3. at[r] = Elements(rxq[s]) /\ at'[r] = Elements(rxq'[s])
        BY <2>1, AtFacts, AtFactsNext
    <2> QED BY <2>2, <2>3
<1>3. CASE \E t \in Thread : r = <<"hand", t>>
    <2>1. PICK t \in Thread : r = <<"hand", t>>
        BY <1>3
    <2>2. hand'[t] = hand[t]
        BY <2>1
    <2>3. at[r] = {hand[t]} \ {None} /\ at'[r] = {hand'[t]} \ {None}
        BY <2>1, AtFacts, AtFactsNext
    <2> QED BY <2>2, <2>3
<1>4. CASE r = <<"rc", "queue">>
    BY <1>4, AtFacts, AtFactsNext
<1>5. CASE r = <<"free", "list">>
    BY <1>5, AtFacts, AtFactsNext
<1> QED BY <1>1, <1>2, <1>3, <1>4, <1>5, Places

LEMMA Stays ==
    ASSUME Apart, Fixed({})
    PROVE  Apart' /\ Everywhere \subseteq Everywhere'
BY DEF Apart, Everywhere, Fixed

-----------------------------------------------------------------------------
(* What the steps move                                                       *)

LEMMA FreeToTx ==
    ASSUME Home, NEW s \in TxService, NEW b \in free, free' = free \ {b},
           txq' = [txq EXCEPT ![s] = Append(@, b)], UNCHANGED <<rxq, rcq, hand>>
    PROVE  Home' /\ Everywhere \subseteq Everywhere'
<1> DEFINE p == <<"free", "list">>
           q == <<"tx", s>>
<1>1. p \in Place /\ q \in Place /\ p # q /\ at[p] = free /\ at[q] = Elements(txq[s])
    BY AtFacts
<1>2. /\ b \in Buffer /\ txq[s] \in Seq(Buffer) /\ Distinct(txq[s]) /\ b \notin Elements(txq[s])
      /\ txq \in [TxService -> Seq(Buffer)]
    BY <1>1 DEF Home, Apart, QueuesTyped, QueuesDistinct
<1>3. /\ txq'[s] = Append(txq[s], b) /\ \A r \in TxService : r # s => txq'[r] = txq[r]
      /\ txq' \in [TxService -> Seq(Buffer)] /\ Distinct(txq'[s])
      /\ Elements(txq'[s]) = Elements(txq[s]) \cup {b}
    BY <1>2, AppendFacts
<1>4. QueuesTyped' /\ QueuesDistinct'
    BY <1>3 DEF Home, QueuesTyped, QueuesDistinct
<1>5. at'[p] = at[p] \ {b} /\ at'[q] = at[q] \cup {b}
    BY <1>1, <1>3, AtFactsNext
<1>6. Fixed({p, q})
    BY <1>3, Frame
<1> HIDE DEF p, q
<1> QED BY <1>1, <1>4, <1>5, <1>6, Moved DEF Home

LEMMA HandToTx ==
    ASSUME Home, NEW s \in TxService, NEW t \in Thread, hand[t] # None,
           hand' = [hand EXCEPT ![t] = None],
           txq' = [txq EXCEPT ![s] = Append(@, hand[t])], UNCHANGED <<rxq, rcq, free>>
    PROVE  Home' /\ Everywhere \subseteq Everywhere'
<1> DEFINE b == hand[t]
           p == <<"hand", t>>
           q == <<"tx", s>>
<1>1. p \in Place /\ q \in Place /\ p # q /\ at[p] = {b} /\ at[q] = Elements(txq[s])
    BY AtFacts
<1>2. /\ b \in Buffer /\ txq[s] \in Seq(Buffer) /\ Distinct(txq[s]) /\ b \notin Elements(txq[s])
      /\ txq \in [TxService -> Seq(Buffer)] /\ hand \in [Thread -> Buffer \cup {None}]
    BY <1>1 DEF Home, Apart, QueuesTyped, QueuesDistinct
<1>3. /\ txq'[s] = Append(txq[s], b) /\ \A r \in TxService : r # s => txq'[r] = txq[r]
      /\ txq' \in [TxService -> Seq(Buffer)] /\ Distinct(txq'[s])
      /\ Elements(txq'[s]) = Elements(txq[s]) \cup {b}
      /\ hand'[t] = None /\ \A u \in Thread : u # t => hand'[u] = hand[u]
    BY <1>2, AppendFacts
<1>4. QueuesTyped' /\ QueuesDistinct'
    BY <1>3 DEF Home, QueuesTyped, QueuesDistinct
<1>5. at'[p] = at[p] \ {b} /\ at'[q] = at[q] \cup {b}
    BY <1>1, <1>3, AtFactsNext
<1>6. Fixed({p, q})
    BY <1>3, Frame
<1> HIDE DEF b, p, q
<1> QED BY <1>1, <1>4, <1>5, <1>6, Moved DEF Home

LEMMA HandToRx ==
    ASSUME Home, NEW s \in RxService, NEW t \in Thread, hand[t] # None,
           hand' = [hand EXCEPT ![t] = None],
           rxq' = [rxq EXCEPT ![s] = Append(@, hand[t])], UNCHANGED <<txq, rcq, free>>
    PROVE  Home' /\ Everywhere \subseteq Everywhere'
<1> DEFINE b == hand[t]
           p == <<"hand", t>>
           q == <<"rx", s>>
<1>1. p \in Place /\ q \in Place /\ p # q /\ at[p] = {b} /\ at[q] = Elements(rxq[s])
    BY AtFacts
<1>2. /\ b \in Buffer /\ rxq[s] \in Seq(Buffer) /\ Distinct(rxq[s]) /\ b \notin Elements(rxq[s])
      /\ rxq \in [RxService -> Seq(Buffer)] /\ hand \in [Thread -> Buffer \cup {None}]
    BY <1>1 DEF Home, Apart, QueuesTyped, QueuesDistinct
<1>3. /\ rxq'[s] = Append(rxq[s], b) /\ \A r \in RxService : r # s => rxq'[r] = rxq[r]
      /\ rxq' \in [RxService -> Seq(Buffer)] /\ Distinct(rxq'[s])
      /\ Elements(rxq'[s]) = Elements(rxq[s]) \cup {b}
      /\ hand'[t] = None /\ \A u \in Thread : u # t => hand'[u] = hand[u]
    BY <1>2, AppendFacts
<1>4. QueuesTyped' /\ QueuesDistinct'
    BY <1>3 DEF Home, QueuesTyped, QueuesDistinct
<1>5. at'[p] = at[p] \ {b} /\ at'[q] = at[q] \cup {b}
    BY <1>1, <1>3, AtFactsNext
<1>6. Fixed({p, q})
    BY <1>3, Frame
<1> HIDE DEF b, p, q
<1> QED BY <1>1, <1>4, <1>5, <1>6, Moved DEF Home

LEMMA HandToRcq ==
    ASSUME Home, NEW t \in Thread, hand[t] # None, hand' = [hand EXCEPT ![t] = None],
           rcq' = Append(rcq, hand[t]), UNCHANGED <<txq, rxq, free>>
    PROVE  Home' /\ Everywhere \subseteq Everywhere'
<1> DEFINE b == hand[t]
           p == <<"hand", t>>
           q == <<"rc", "queue">>
<1>1. p \in Place /\ q \in Place /\ p # q /\ at[p] = {b} /\ at[q] = Elements(rcq)
    BY AtFacts
<1>2. /\ b \in Buffer /\ rcq \in Seq(Buffer) /\ Distinct(rcq) /\ b \notin Elements(rcq)
      /\ hand \in [Thread -> Buffer \cup {None}]
    BY <1>1 DEF Home, Apart, QueuesTyped, QueuesDistinct
<1>3. /\ rcq' \in Seq(Buffer) /\ Distinct(rcq') /\ Elements(rcq') = Elements(rcq) \cup {b}
      /\ hand'[t] = None /\ \A u \in Thread : u # t => hand'[u] = hand[u]
    BY <1>2, AppendFacts
<1>4. QueuesTyped' /\ QueuesDistinct'
    BY <1>3 DEF Home, QueuesTyped, QueuesDistinct
<1>5. at'[p] = at[p] \ {b} /\ at'[q] = at[q] \cup {b}
    BY <1>1, <1>3, AtFactsNext
<1>6. Fixed({p, q})
    BY <1>3, Frame
<1> HIDE DEF b, p, q
<1> QED BY <1>1, <1>4, <1>5, <1>6, Moved DEF Home

LEMMA HandToFree ==
    ASSUME Home, NEW t \in Thread, hand[t] # None,
           hand' = [hand EXCEPT ![t] = None], free' = free \cup {hand[t]},
           UNCHANGED <<txq, rxq, rcq>>
    PROVE  Home' /\ Everywhere \subseteq Everywhere'
<1> DEFINE b == hand[t]
           p == <<"hand", t>>
           q == <<"free", "list">>
<1>1. p \in Place /\ q \in Place /\ p # q /\ at[p] = {b} /\ at[q] = free
    BY AtFacts
<1>2. b \in Buffer /\ hand \in [Thread -> Buffer \cup {None}]
    BY DEF Home, QueuesTyped
<1>3. hand'[t] = None /\ \A u \in Thread : u # t => hand'[u] = hand[u]
    BY <1>2
<1>4. QueuesTyped' /\ QueuesDistinct'
    BY <1>2 DEF Home, QueuesTyped, QueuesDistinct
<1>5. at'[p] = at[p] \ {b} /\ at'[q] = at[q] \cup {b}
    BY <1>1, <1>3, AtFactsNext
<1>6. Fixed({p, q})
    BY <1>3, Frame
<1> HIDE DEF b, p, q
<1> QED BY <1>1, <1>4, <1>5, <1>6, Moved DEF Home

LEMMA HandForgotten ==
    ASSUME Home, NEW t \in Thread, hand[t] # None,
           hand' = [hand EXCEPT ![t] = None], UNCHANGED <<free, txq, rxq, rcq>>
    PROVE  Home' /\ Everywhere \subseteq Everywhere' \cup {hand[t]}
<1> DEFINE b == hand[t]
           p == <<"hand", t>>
<1>1. p \in Place /\ at[p] = {b}
    BY AtFacts
<1>2. hand \in [Thread -> Buffer \cup {None}]
    BY DEF Home, QueuesTyped
<1>3. hand'[t] = None /\ \A u \in Thread : u # t => hand'[u] = hand[u]
    BY <1>2
<1>4. QueuesTyped' /\ QueuesDistinct'
    BY <1>2 DEF Home, QueuesTyped, QueuesDistinct
<1>5. at'[p] = at[p] \ {b}
    BY <1>1, <1>3, AtFactsNext
<1>6. Fixed({p})
    BY <1>3, Frame
<1> HIDE DEF b, p
<1>7. Apart' /\ Everywhere \subseteq Everywhere' \cup {b}
    BY <1>1, <1>5, <1>6, Gone DEF Home
<1> QED BY <1>4, <1>7 DEF Home, b

LEMMA TxToHand ==
    ASSUME Home, NEW s \in TxService, NEW t \in Thread, hand[t] = None,
           txq[s] # <<>>, hand' = [hand EXCEPT ![t] = Head(txq[s])],
           txq' = [txq EXCEPT ![s] = Tail(@)], UNCHANGED <<free, rxq, rcq>>
    PROVE  Home' /\ Everywhere \subseteq Everywhere'
<1> DEFINE b == Head(txq[s])
           p == <<"tx", s>>
           q == <<"hand", t>>
<1>1. p \in Place /\ q \in Place /\ p # q /\ at[p] = Elements(txq[s]) /\ at[q] = {}
    BY AtFacts
<1>2. /\ txq[s] \in Seq(Buffer) /\ Distinct(txq[s]) /\ txq \in [TxService -> Seq(Buffer)]
      /\ hand \in [Thread -> Buffer \cup {None}]
    BY DEF Home, QueuesTyped, QueuesDistinct
<1>3. /\ Tail(txq[s]) \in Seq(Buffer) /\ Distinct(Tail(txq[s])) /\ b \in Buffer /\ b \in Elements(txq[s])
      /\ Elements(Tail(txq[s])) = Elements(txq[s]) \ {b}
    BY <1>2, TailFacts
<1>4. /\ txq'[s] = Tail(txq[s]) /\ \A r \in TxService : r # s => txq'[r] = txq[r]
      /\ txq' \in [TxService -> Seq(Buffer)]
      /\ hand'[t] = b /\ \A u \in Thread : u # t => hand'[u] = hand[u]
    BY <1>2, <1>3
<1>5. QueuesTyped' /\ QueuesDistinct'
    BY <1>3, <1>4 DEF Home, QueuesTyped, QueuesDistinct
<1>6. Fixed({p, q})
    BY <1>4, Frame
<1> HIDE DEF b
<1>7. at'[p] = at[p] \ {b} /\ at'[q] = at[q] \cup {b}
    BY <1>1, <1>3, <1>4, AtFactsNext, ScheduleAssumption DEF ScheduleAssumption
<1> HIDE DEF p, q
<1> QED BY <1>1, <1>3, <1>5, <1>6, <1>7, Moved DEF Home

LEMMA RxToHand ==
    ASSUME Home, NEW s \in RxService, NEW t \in Thread, hand[t] = None,
           rxq[s] # <<>>, hand' = [hand EXCEPT ![t] = Head(rxq[s])],
           rxq' = [rxq EXCEPT ![s] = Tail(@)], UNCHANGED <<free, txq, rcq>>
    PROVE  Home' /\ Everywhere \subseteq Everywhere'
<1> DEFINE b == Head(rxq[s])
           p == <<"rx", s>>
           q == <<"hand", t>>
<1>1. p \in Place /\ q \in Place /\ p # q /\ at[p] = Elements(rxq[s]) /\ at[q] = {}
    BY AtFacts
<1>2. /\ rxq[s] \in Seq(Buffer) /\ Distinct(rxq[s]) /\ rxq \in [RxService -> Seq(Buffer)]
      /\ hand \in [Thread -> Buffer \cup {None}]
    BY DEF Home, QueuesTyped, QueuesDistinct
<1>3. /\ Tail(rxq[s]) \in Seq(Buffer) /\ Distinct(Tail(rxq[s])) /\ b \in Buffer /\ b \in Elements(rxq[s])
      /\ Elements(Tail(rxq[s])) = Elements(rxq[s]) \ {b}
    BY <1>2, TailFacts
<1>4. /\ rxq'[s] = Tail(rxq[s]) /\ \A r \in RxService : r # s => rxq'[r] = rxq[r]
      /\ rxq' \in [RxService -> Seq(Buffer)]
      /\ hand'[t] = b /\ \A u \in Thread : u # t => hand'[u] = hand[u]
    BY <1>2, <1>3
<1>5. QueuesTyped' /\ QueuesDistinct'
    BY <1>3, <1>4 DEF Home, QueuesTyped, QueuesDistinct
<1>6. Fixed({p, q})
    BY <1>4, Frame
<1> HIDE DEF b
<1>7. at'[p] = at[p] \ {b} /\ at'[q] = at[q] \cup {b}
    BY <1>1, <1>3, <1>4, AtFactsNext, ScheduleAssumption DEF ScheduleAssumption
<1> HIDE DEF p, q
<1> QED BY <1>1, <1>3, <1>5, <1>6, <1>7, Moved DEF Home

\* The tick is freed, and the oldest message of the RC queue takes its place.
LEMMA RcToHand ==
    ASSUME Home, NEW t \in Thread, hand[t] # None, rcq # <<>>,
           hand' = [hand EXCEPT ![t] = Head(rcq)], rcq' = Tail(rcq),
           free' = free \cup {hand[t]}, UNCHANGED <<txq, rxq>>
    PROVE  Home' /\ Everywhere \subseteq Everywhere'
<1> DEFINE b == hand[t]
           c == Head(rcq)
           p == <<"hand", t>>
           q == <<"free", "list">>
           r == <<"rc", "queue">>
<1>1. /\ p \in Place /\ q \in Place /\ r \in Place /\ p # q /\ p # r /\ q # r
      /\ at[p] = {b} /\ at[q] = free /\ at[r] = Elements(rcq)
    BY AtFacts
<1>2. rcq \in Seq(Buffer) /\ Distinct(rcq) /\ b \in Buffer /\ hand \in [Thread -> Buffer \cup {None}]
    BY DEF Home, QueuesTyped, QueuesDistinct
<1>3. /\ rcq' \in Seq(Buffer) /\ Distinct(rcq') /\ c \in Buffer /\ c \in Elements(rcq)
      /\ Elements(rcq') = Elements(rcq) \ {c}
    BY <1>2, TailFacts
<1>4. hand'[t] = c /\ \A u \in Thread : u # t => hand'[u] = hand[u]
    BY <1>2
<1>5. QueuesTyped' /\ QueuesDistinct'
    BY <1>2, <1>3, <1>4 DEF Home, QueuesTyped, QueuesDistinct
<1>6. Fixed({p, q, r})
    BY <1>4, Frame
<1> HIDE DEF b, c
<1>7. at'[p] = {c} /\ at'[q] = at[q] \cup {b} /\ at'[r] = at[r] \ {c}
    BY <1>1, <1>3, <1>4, AtFactsNext, ScheduleAssumption DEF ScheduleAssumption, b
<1> HIDE DEF p, q, r
<1>8. c # b /\ \A x \in Place : (c \in at[x] => x = r) /\ (b \in at[x] => x = p)
    BY <1>1, <1>3 DEF Home, Apart
<1>9. Apart'
    <2> SUFFICES ASSUME NEW x \in Place, NEW y \in Place, x # y, NEW d, d \in at'[x], d \in at'[y]
                 PROVE  FALSE
        BY DEF Apart
    <2>1. d # b /\ d # c
        BY <1>1, <1>6, <1>7, <1>8 DEF Fixed
    <2>2. d \in at[x] /\ d \in at[y]
        BY <1>1, <1>6, <1>7, <2>1 DEF Fixed
    <2> QED BY <2>2 DEF Home, Apart
<1>10. \A x \in Place : \A d \in at[x] : \E y \in Place : d \in at'[y]
    BY <1>1, <1>6, <1>7 DEF Fixed
<1> QED BY <1>5, <1>9, <1>10 DEF Home, Everywhere

-----------------------------------------------------------------------------
(* Every step keeps each buffer in one place                               *)

\* The one message that a step may lose.
Unkept ==
    {c \in {hand["map"]} : hand["map"] # None /\ msg[hand["map"]].kind = "rc"
                               /\ msg[hand["map"]].src = "request" /\ ~RcRoom}

LEMMA WriteNewMoves ==
    ASSUME Home, NEW s \in TxService, NEW c, NEW type, NEW kind, WriteNew(s, c, type, kind),
           UNCHANGED <<rxq, rcq, hand>>
    PROVE  Home' /\ Everywhere \subseteq Everywhere'
BY FreeToTx DEF WriteNew

LEMMA FreeInHandMoves ==
    ASSUME Home, NEW s \in RxService, hand[s] # None, FreeInHand(s), UNCHANGED <<rxq, rcq>>
    PROVE  Home' /\ Everywhere \subseteq Everywhere'
BY HandToFree DEF FreeInHand, Release, Thread

LEMMA WriteOrFreeMoves ==
    ASSUME Home, NEW s \in RxService \cap TxService, NEW type, hand[s] # None,
           WriteOrFree(s, type), UNCHANGED <<rxq, rcq>>
    PROVE  Home' /\ Everywhere \subseteq Everywhere'
BY HandToFree, HandToTx DEF WriteOrFree, Release, Thread

LEMMA PollMoves ==
    ASSUME TypeOK, Home, Poll
    PROVE  Home' /\ Everywhere \subseteq Everywhere'
<1> DEFINE s == TxOrder[polled]
<1>1. s \in TxService /\ "scheduler" \in Thread
    BY Services DEF TypeOK
<1>2. CASE UNCHANGED <<txq, hand>>
    <2>1. Fixed({})
        BY <1>2, Frame DEF Poll
    <2> QED BY <1>2, <2>1, Stays DEF Poll, Home, QueuesTyped, QueuesDistinct
<1>3. CASE txq[s] # <<>> /\ hand' = [hand EXCEPT !["scheduler"] = Head(txq[s])]
               /\ txq' = [txq EXCEPT ![s] = Tail(@)]
    <2> HIDE DEF s
    <2> QED BY <1>1, <1>3, TxToHand DEF Poll
<1> QED BY <1>2, <1>3 DEF Poll

LEMMA KnownHasDestination ==
    ASSUME NEW b, Known(b)
    PROVE  Destination(b) # {}
BY DEF Known, Keyed, Destination

LEMMA DispatchMoves ==
    ASSUME Inv, Dispatch
    PROVE  Home' /\ Everywhere \subseteq Everywhere'
<1> DEFINE b == hand["scheduler"]
<1>1. "scheduler" \in Thread /\ \A e \in Table : e[3] \in RxService
    BY Services DEF Table
<1>2. CASE \E d \in Destination(b) :
              rxq' = [rxq EXCEPT ![d] = Append(@, b)] /\ UNCHANGED free
    <2>1. PICK d \in Destination(b) :
              rxq' = [rxq EXCEPT ![d] = Append(@, b)] /\ UNCHANGED free
        BY <1>2
    <2>2. d \in RxService
        BY <1>1 DEF Destination
    <2> QED BY <1>1, <2>1, <2>2, HandToRx DEF Dispatch, Inv
<1>3. CASE Destination(b) = {} /\ ~hit /\ Release(b) /\ UNCHANGED rxq
    BY <1>1, <1>3, HandToFree DEF Dispatch, Release, Inv
<1>4. ~(Destination(b) = {} /\ hit)
    BY KnownHasDestination DEF Inv, Routed, FreshHit, Dispatch
<1> QED BY <1>2, <1>3, <1>4 DEF Dispatch

LEMMA ReadRxMoves ==
    ASSUME Home, NEW s \in RxService, ReadRx(s)
    PROVE  Home' /\ Everywhere \subseteq Everywhere'
BY RxToHand, Services DEF ReadRx

LEMMA RcHandlerMoves ==
    ASSUME Home, RcHandler
    PROVE  Home' /\ Everywhere \subseteq Everywhere'
<1>1. "map" \in Thread
    BY Services
<1>2. CASE rcq = <<>>
    BY <1>1, <1>2, HandToFree DEF RcHandler, Handles, Release
<1>3. CASE rcq # <<>>
    BY <1>1, <1>3, RcToHand DEF RcHandler, Handles, Release
<1> QED BY <1>2, <1>3

LEMMA ToRcQueueMoves ==
    ASSUME Home, ToRcQueue
    PROVE  Home' /\ Everywhere \subseteq Everywhere' \cup Unkept
<1>1. "map" \in Thread /\ hand["map"] # None
    BY Services DEF ToRcQueue, Handles
<1>2. CASE RcRoom
    BY <1>1, <1>2, HandToRcq DEF ToRcQueue, Handles
<1>3. CASE ~RcRoom
    <2>1. Home' /\ Everywhere \subseteq Everywhere' \cup {hand["map"]}
        BY <1>1, <1>3, HandForgotten DEF ToRcQueue, Handles
    <2>2. Unkept = {hand["map"]}
        BY <1>1, <1>3 DEF ToRcQueue, Unkept
    <2> QED BY <2>1, <2>2
<1> QED BY <1>2, <1>3

LEMMA PtpMasterMoves ==
    ASSUME Home, PtpMaster
    PROVE  Home' /\ Everywhere \subseteq Everywhere'
<1>1. "ptp" \in RxService \cap TxService /\ "ptp" \in Thread /\ hand["ptp"] # None
    BY Services DEF PtpMaster, Handles
<1>2. CASE WriteOrFree("ptp", "ptp")
    BY <1>1, <1>2, WriteOrFreeMoves DEF PtpMaster, Handles
<1>3. CASE hand' = [hand EXCEPT !["ptp"] = None] /\ txq' = [txq EXCEPT !["ptp"] = Append(@, hand["ptp"])]
               /\ UNCHANGED free
    BY <1>1, <1>3, HandToTx DEF PtpMaster, Handles
<1>4. CASE hand' = [hand EXCEPT !["ptp"] = None] /\ Release(hand["ptp"]) /\ UNCHANGED txq
    BY <1>1, <1>4, HandToFree DEF PtpMaster, Handles, Release
<1> QED BY <1>2, <1>3, <1>4 DEF PtpMaster

LEMMA PtpSlaveMoves ==
    ASSUME Home, PtpSlave
    PROVE  Home' /\ Everywhere \subseteq Everywhere'
<1>1. "ptp" \in RxService \cap TxService /\ hand["ptp"] # None
    BY Services DEF PtpSlave, Handles
<1> QED BY <1>1, WriteOrFreeMoves, FreeInHandMoves DEF PtpSlave, Handles

LEMMA MakeOffsetMoves ==
    ASSUME Home, MakeOffset
    PROVE  Home' /\ Everywhere \subseteq Everywhere'
<1>1. CASE \E c \in Buffer : WriteNew("ptp", c, "nmac", "offset")
    BY <1>1, Services, WriteNewMoves DEF MakeOffset
<1>2. CASE UNCHANGED <<free, msg, txq, ahead>>
    <2>1. Fixed({})
        BY <1>2, Frame DEF MakeOffset
    <2> QED BY <1>2, <2>1, Stays DEF MakeOffset, Home, QueuesTyped, QueuesDistinct
<1> QED BY <1>1, <1>2 DEF MakeOffset

LEMMA Moves ==
    ASSUME Inv, [Next]_vars
    PROVE  Home' /\ Everywhere \subseteq Everywhere' \cup Unkept
<1>0. Home /\ TypeOK
    BY DEF Inv
<1>1. CASE Poll
    BY <1>0, <1>1, PollMoves
<1>2. CASE Dispatch
    BY <1>2, DispatchMoves
<1>3. CASE Receive
    BY <1>0, <1>3, Services, WriteNewMoves DEF Receive
<1>4. CASE Configure
    BY <1>0, <1>4, Services, WriteNewMoves DEF Configure
<1>5. CASE TimerOut
    BY <1>0, <1>5, Services, WriteNewMoves DEF TimerOut
<1>6. CASE \E s \in RxService : ReadRx(s)
    BY <1>0, <1>6, ReadRxMoves
<1>7. CASE RcHandler
    BY <1>0, <1>7, RcHandlerMoves
<1>8. CASE ToRcQueue
    BY <1>0, <1>8, ToRcQueueMoves
<1>9. CASE MapOther
    BY <1>0, <1>9, Services, FreeInHandMoves, WriteOrFreeMoves DEF MapOther, Handles
<1>10. CASE PtpMaster
    BY <1>0, <1>10, PtpMasterMoves
<1>11. CASE PtpSlave
    BY <1>0, <1>11, PtpSlaveMoves
<1>12. CASE MakeOffset
    BY <1>0, <1>12, MakeOffsetMoves
<1>13. CASE Send
    BY <1>0, <1>13, Services, FreeInHandMoves DEF Send, Handles
<1>14. CASE Regroup
    BY <1>0, <1>14, Services, FreeInHandMoves, WriteOrFreeMoves DEF Regroup, Handles
<1>15. CASE ArpReply
    BY <1>0, <1>15, Services, FreeInHandMoves, WriteOrFreeMoves DEF ArpReply, Handles
<1>16. CASE UNCHANGED vars
    <2>1. Fixed({})
        BY <1>16, Frame DEF vars
    <2> QED BY <1>0, <1>16, <2>1, Stays DEF vars, Home, QueuesTyped, QueuesDistinct
<1>17. \A s \in {"map", "ptp", "response", "regroup", "arp"} : s \in RxService
    BY Services
<1> QED BY <1>1, <1>2, <1>3, <1>4, <1>5, <1>6, <1>7, <1>8, <1>9, <1>10, <1>11, <1>12, <1>13,
           <1>14, <1>15, <1>16, <1>17
        DEF Next, Scheduler, Map, Ptp, DataResponse, RegroupService, ArpService

-----------------------------------------------------------------------------
(* Every step keeps the routes                                          *)

LEMMA KnownKeys ==
    /\ Keyed("nmac", "nmac") /\ Keyed("ptp", "nmac") /\ Keyed("ptp", "ptp")
    /\ Keyed("timer", "mapTick") /\ Keyed("timer", "ptpTick")
    /\ Keyed("regroup", "regroup") /\ Keyed("arp", "arp") /\ Keyed("map", "forward")
BY DEF Keyed, Table

LEMMA ElementsTyped ==
    \A q \in Seq(Buffer) : Elements(q) \subseteq Buffer
BY DEF Elements

LEMMA HandAlone ==
    ASSUME Home, NEW t \in Thread, hand[t] # None
    PROVE  /\ \A s \in TxService : hand[t] \notin Elements(txq[s])
           /\ \A u \in Thread : u # t => hand[u] # hand[t]
           /\ hand[t] \in Buffer
<1>1. hand[t] \in at[<<"hand", t>>]
    BY AtFacts
<1>2. ASSUME NEW s \in TxService PROVE hand[t] \notin Elements(txq[s])
    <2>1. <<"tx", s>> # <<"hand", t>>
        OBVIOUS
    <2>2. hand[t] \notin at[<<"tx", s>>]
        BY <1>1, <2>1, AtFacts DEF Home, Apart
    <2> QED BY <2>2, AtFacts
<1>3. ASSUME NEW u \in Thread, u # t PROVE hand[u] # hand[t]
    <2>1. <<"hand", u>> # <<"hand", t>> /\ <<"hand", u>> \in Place /\ <<"hand", t>> \in Place
        BY <1>3, AtFacts
    <2>2. hand[t] \notin at[<<"hand", u>>]
        BY <1>1, <2>1 DEF Home, Apart
    <2> QED BY <2>2, AtFacts
<1> QED BY <1>2, <1>3 DEF Home, QueuesTyped

LEMMA FreeAlone ==
    ASSUME Home, NEW b \in free
    PROVE  /\ \A s \in TxService : b \notin Elements(txq[s])
           /\ \A u \in Thread : hand[u] # None => hand[u] # b
           /\ b \in Buffer
<1>1. ASSUME NEW s \in TxService PROVE b \notin Elements(txq[s])
    <2>1. <<"tx", s>> # <<"free", "list">>
        OBVIOUS
    <2>2. b \in at[<<"free", "list">>]
        BY AtFacts
    <2>3. b \notin at[<<"tx", s>>]
        BY <2>1, <2>2, AtFacts DEF Home, Apart
    <2> QED BY <2>3, AtFacts
<1>2. ASSUME NEW u \in Thread, hand[u] # None PROVE hand[u] # b
    <2>1. <<"hand", u>> # <<"free", "list">>
        OBVIOUS
    <2>2. hand[u] \in at[<<"hand", u>>] /\ b \in at[<<"free", "list">>]
        BY <1>2, AtFacts
    <2>3. b \notin at[<<"hand", u>>]
        BY <2>1, <2>2, AtFacts DEF Home, Apart
    <2> QED BY <2>2, <2>3
<1> QED BY <1>1, <1>2 DEF Home, QueuesTyped

\* A step that rewrites b, and writes it at most, keeps the routes if b has one.
LEMMA RoutesKept ==
    ASSUME Home, Routed, NEW b, hand'["scheduler"] = hand["scheduler"], polled' = polled,
           hand["scheduler"] # None => hand["scheduler"] # b,
           \A c \in Buffer : c # b => msg'[c] = msg[c],
           \A s \in TxService : b \notin Elements(txq[s]),
           \A s \in TxService : Elements(txq'[s]) \subseteq Elements(txq[s]) \cup {b},
           \A s \in TxService \ {"request"} :
               b \in Elements(txq'[s]) => Keyed(msg'[b].src, msg'[b].type)
    PROVE  Routed'
<1>1. \A c \in Buffer : c # b => (Known(c)' <=> Known(c))
    BY DEF Known
<1>2. /\ \A s \in TxService : Elements(txq[s]) \subseteq Buffer
      /\ hand["scheduler"] # None => hand["scheduler"] \in Buffer
    BY Services, ElementsTyped DEF Home, QueuesTyped
<1>3. ASSUME NEW s \in TxService \ {"request"}, NEW c \in Elements(txq'[s]) PROVE Known(c)'
    <2>1. CASE c = b
        BY <1>3, <2>1 DEF Known
    <2>2. CASE c # b
        BY <1>1, <1>2, <1>3, <2>2 DEF Routed
    <2> QED BY <2>1, <2>2
<1> DEFINE k == hand["scheduler"]
<1>4. ASSUME k # None, polled # 1 PROVE Keyed(msg'[k].src, msg'[k].type)
    <2>1. k \in Buffer /\ k # b
        BY <1>2, <1>4
    <2>2. Keyed(msg[k].src, msg[k].type)
        BY <1>4 DEF Routed, Known
    <2>3. msg'[k] = msg[k]
        BY <2>1
    <2> QED BY <2>2, <2>3
<1> HIDE DEF k
<1>5. hand'["scheduler"] = k
    BY DEF k
<1>6. \A s \in TxService \ {"request"} : \A c \in Elements(txq[s])' : Known(c)'
    BY <1>3
<1>7. hand'["scheduler"] # None /\ polled' # 1 => Keyed(msg'[hand'["scheduler"]].src, msg'[hand'["scheduler"]].type)
    BY <1>4, <1>5
<1> QED BY <1>6, <1>7 DEF Routed, Known

LEMMA WriteNewRoutes ==
    ASSUME Inv, NEW s \in TxService, NEW c, NEW type, NEW kind, WriteNew(s, c, type, kind),
           s # "request" => Keyed(s, type), UNCHANGED <<hand, polled>>
    PROVE  Routed'
<1>1. c \in free /\ Home /\ "scheduler" \in Thread /\ msg \in [Buffer -> Message]
    BY Services DEF WriteNew, Inv, TypeOK
<1>2. c \in Buffer /\ txq \in [TxService -> Seq(Buffer)]
    BY <1>1, FreeAlone DEF Home, QueuesTyped
<1>3. /\ txq'[s] = Append(txq[s], c) /\ \A r \in TxService : r # s => txq'[r] = txq[r]
      /\ Elements(txq'[s]) = Elements(txq[s]) \cup {c}
    BY <1>2, AppendFacts DEF WriteNew
<1>4. msg'[c].src = s /\ msg'[c].type = type /\ \A d \in Buffer : d # c => msg'[d] = msg[d]
    BY <1>1, <1>2 DEF WriteNew
<1>5. /\ \A r \in TxService : c \notin Elements(txq[r])
      /\ hand["scheduler"] # None => hand["scheduler"] # c
      /\ hand'["scheduler"] = hand["scheduler"] /\ Routed
    BY <1>1, FreeAlone DEF Inv
<1>6. \A r \in TxService : Elements(txq'[r]) \subseteq Elements(txq[r]) \cup {c}
    BY <1>3
<1>7. ASSUME NEW r \in TxService \ {"request"}, c \in Elements(txq'[r])
      PROVE  Keyed(msg'[c].src, msg'[c].type)
    <2>1. r = s
        BY <1>3, <1>5, <1>7
    <2> QED BY <1>4, <1>7, <2>1
<1> QED BY <1>1, <1>4, <1>5, <1>6, <1>7, RoutesKept

LEMMA FreeInHandRoutes ==
    ASSUME Inv, NEW s \in RxService, hand[s] # None, FreeInHand(s), UNCHANGED polled
    PROVE  Routed'
<1>1. /\ "scheduler" \in Thread /\ s \in Thread /\ s # "scheduler" /\ Home /\ hand[s] \in Buffer
      /\ hand \in [Thread -> Buffer \cup {None}] /\ msg \in [Buffer -> Message]
    BY Services, HandAlone DEF Inv, Home, QueuesTyped, TypeOK
<1>2. \A c \in Buffer : c # hand[s] => msg'[c] = msg[c]
    BY <1>1 DEF FreeInHand, Release, Forgotten
<1>3. hand'["scheduler"] = hand["scheduler"] /\ UNCHANGED txq
    BY <1>1 DEF FreeInHand
<1> QED BY <1>1, <1>2, <1>3, HandAlone, RoutesKept DEF Inv

LEMMA WriteOrFreeRoutes ==
    ASSUME Inv, NEW s \in RxService \cap TxService, NEW type, hand[s] # None,
           WriteOrFree(s, type), Keyed(s, type), UNCHANGED polled
    PROVE  Routed'
<1>1. /\ "scheduler" \in Thread /\ s \in Thread /\ s # "scheduler" /\ Home /\ hand[s] \in Buffer
      /\ hand \in [Thread -> Buffer \cup {None}] /\ msg \in [Buffer -> Message]
    BY Services, HandAlone DEF Inv, Home, QueuesTyped, TypeOK
<1>2. hand'["scheduler"] = hand["scheduler"] /\ txq \in [TxService -> Seq(Buffer)]
    BY <1>1 DEF WriteOrFree, Home, QueuesTyped
<1>3. CASE txq' = [txq EXCEPT ![s] = Append(@, hand[s])]
               /\ msg' = [msg EXCEPT ![hand[s]].src = s, ![hand[s]].type = type]
    <2>1. /\ Elements(txq'[s]) = Elements(txq[s]) \cup {hand[s]}
          /\ \A r \in TxService : r # s => txq'[r] = txq[r]
        BY <1>1, <1>2, <1>3, AppendFacts
    <2>2. /\ msg'[hand[s]].src = s /\ msg'[hand[s]].type = type
          /\ \A c \in Buffer : c # hand[s] => msg'[c] = msg[c]
        BY <1>1, <1>3 DEF Message
    <2> QED BY <1>1, <1>2, <2>1, <2>2, HandAlone, RoutesKept DEF Inv
<1>4. CASE Release(hand[s]) /\ UNCHANGED txq
    <2>1. \A c \in Buffer : c # hand[s] => msg'[c] = msg[c]
        BY <1>1, <1>4 DEF Release, Forgotten
    <2> QED BY <1>1, <1>2, <1>4, <2>1, HandAlone, RoutesKept DEF Inv
<1> QED BY <1>3, <1>4 DEF WriteOrFree

LEMMA AdvanceFresh ==
    ASSUME Inv, NEW flag, Advance(flag)
    PROVE  FreshHit'
<1>1. polled \in 1 .. 7 /\ Len(TxOrder) = 7
    BY Services DEF Inv, TypeOK
<1>2. ASSUME polled < 7 PROVE polled' # 1
    <2>1. polled % 7 = polled
        BY <1>1, <1>2
    <2>2. polled' = polled + 1
        BY <1>1, <2>1 DEF Advance
    <2> QED BY <1>1, <2>2
<1>3. hit' = (flag /\ polled < 7)
    BY <1>1 DEF Advance
<1>4. hit' => polled < 7
    BY <1>3, Zenon
<1> QED BY <1>2, <1>4 DEF FreshHit

LEMMA PollRoutes ==
    ASSUME Inv, Poll
    PROVE  Routed' /\ FreshHit'
<1> DEFINE s == TxOrder[polled]
<1>1. /\ s \in TxService /\ (s = "request" => polled = 1) /\ "scheduler" \in Thread
      /\ polled \in 1 .. 7 /\ Len(TxOrder) = 7
    BY Services DEF Inv, TypeOK
<1>2. UNCHANGED msg /\ hand["scheduler"] = None
    BY DEF Poll
<1> HIDE DEF s
<1>3. CASE UNCHANGED <<txq, hand>> /\ Advance(hit)
    <2>1. \A r \in TxService \ {"request"} : \A b \in Elements(txq'[r]) : Known(b)'
        BY <1>2, <1>3 DEF Inv, Routed, Known
    <2> QED BY <1>2, <1>3, <2>1, AdvanceFresh DEF Routed, Known
<1>4. CASE /\ txq[s] # <<>> /\ hand' = [hand EXCEPT !["scheduler"] = Head(txq[s])]
           /\ txq' = [txq EXCEPT ![s] = Tail(@)] /\ UNCHANGED <<polled, hit>>
    <2>1. /\ txq[s] \in Seq(Buffer) /\ Distinct(txq[s]) /\ txq \in [TxService -> Seq(Buffer)]
          /\ hand'["scheduler"] = Head(txq[s])
        BY <1>1, <1>4 DEF Inv, Home, QueuesTyped, QueuesDistinct
    <2>2. /\ Head(txq[s]) \in Elements(txq[s])
          /\ \A r \in TxService : Elements(txq'[r]) \subseteq Elements(txq[r])
        BY <1>1, <1>4, <2>1, TailFacts
    <2>3. polled # 1 => Known(Head(txq[s]))
        BY <1>1, <2>2 DEF Inv, Routed
    <2>5. \A r \in TxService \ {"request"} : \A b \in Elements(txq'[r]) : Known(b)'
        BY <1>2, <2>2 DEF Inv, Routed, Known
    <2> QED BY <1>2, <1>4, <2>1, <2>3, <2>5 DEF Inv, Routed, FreshHit, Known
<1> QED BY <1>3, <1>4 DEF Poll, s

LEMMA DispatchRoutes ==
    ASSUME Inv, Dispatch
    PROVE  Routed' /\ FreshHit'
<1> DEFINE b == hand["scheduler"]
<1>1. /\ b # None /\ b \in Buffer /\ \A s \in TxService : b \notin Elements(txq[s])
      /\ hand \in [Thread -> Buffer \cup {None}] /\ "scheduler" \in Thread
    BY Services, HandAlone DEF Dispatch, Inv, Home, QueuesTyped
<1>2. hand'["scheduler"] = None
    BY <1>1 DEF Dispatch
<1>3. \A c \in Buffer : c # b => msg'[c] = msg[c]
    BY <1>1 DEF Dispatch, Release, Forgotten, Inv, TypeOK
<1>4. ASSUME NEW s \in TxService \ {"request"}, NEW c \in Elements(txq'[s]) PROVE Known(c)'
    <2>1. c \in Elements(txq[s]) /\ c \in Buffer /\ c # b
        BY <1>1, <1>4 DEF Dispatch, Inv, Home, QueuesTyped, Elements
    <2>2. msg'[c] = msg[c]
        BY <1>3, <2>1
    <2> QED BY <2>1, <2>2 DEF Inv, Routed, Known
<1>5. Advance(TRUE) \/ Advance(hit)
    BY DEF Dispatch
<1> HIDE DEF b
<1>6. \A s \in TxService \ {"request"} : \A c \in Elements(txq[s])' : Known(c)'
    BY <1>4
<1> QED BY <1>2, <1>5, <1>6, AdvanceFresh DEF Routed, Known

LEMMA RcHandlerRoutes ==
    ASSUME Inv, RcHandler
    PROVE  Routed'
<1>1. /\ "scheduler" \in Thread /\ "map" \in Thread /\ Home /\ hand["map"] # None
      /\ hand \in [Thread -> Buffer \cup {None}] /\ msg \in [Buffer -> Message]
    BY Services DEF Inv, Home, QueuesTyped, TypeOK, RcHandler, Handles
<1>2. \A c \in Buffer : c # hand["map"] => msg'[c] = msg[c]
    BY <1>1 DEF RcHandler, Release, Forgotten
<1>3. hand'["scheduler"] = hand["scheduler"] /\ UNCHANGED <<txq, polled>>
    BY <1>1 DEF RcHandler, Handles
<1> QED BY <1>1, <1>2, <1>3, HandAlone, RoutesKept DEF Inv

LEMMA ToRcQueueRoutes ==
    ASSUME Inv, ToRcQueue
    PROVE  Routed'
<1>1. /\ "scheduler" \in Thread /\ "map" \in Thread /\ Home /\ hand["map"] # None
      /\ hand \in [Thread -> Buffer \cup {None}] /\ msg \in [Buffer -> Message]
    BY Services DEF Inv, Home, QueuesTyped, TypeOK, ToRcQueue, Handles
<1>2. \A c \in Buffer : c # hand["map"] => msg'[c] = msg[c]
    BY <1>1 DEF ToRcQueue, Forgotten
<1>3. hand'["scheduler"] = hand["scheduler"] /\ UNCHANGED <<txq, polled>>
    BY <1>1 DEF ToRcQueue, Handles
<1> QED BY <1>1, <1>2, <1>3, HandAlone, RoutesKept DEF Inv

\* The message that sync_handler_master makes, in the tick's buffer.
LEMMA SyncRoutes ==
    ASSUME Inv, hand["ptp"] # None, hand' = [hand EXCEPT !["ptp"] = None],
           txq' = [txq EXCEPT !["ptp"] = Append(@, hand["ptp"])], UNCHANGED polled,
           msg' = [msg EXCEPT ![hand["ptp"]] = [src |-> "ptp", type |-> "ptp", kind |-> "ptpTick"]]
    PROVE  Routed'
<1>1. /\ "scheduler" \in Thread /\ "ptp" \in Thread /\ "ptp" \in TxService /\ Home
      /\ hand["ptp"] \in Buffer /\ hand \in [Thread -> Buffer \cup {None}]
      /\ msg \in [Buffer -> Message] /\ txq \in [TxService -> Seq(Buffer)]
    BY Services, HandAlone DEF Inv, Home, QueuesTyped, TypeOK
<1>2. /\ Elements(txq'["ptp"]) = Elements(txq["ptp"]) \cup {hand["ptp"]}
      /\ \A r \in TxService : r # "ptp" => txq'[r] = txq[r]
    BY <1>1, AppendFacts
<1>3. /\ msg'[hand["ptp"]].src = "ptp" /\ msg'[hand["ptp"]].type = "ptp"
      /\ \A c \in Buffer : c # hand["ptp"] => msg'[c] = msg[c]
    BY <1>1
<1>4. /\ \A r \in TxService : hand["ptp"] \notin Elements(txq[r])
      /\ hand["scheduler"] # hand["ptp"]
      /\ hand'["scheduler"] = hand["scheduler"] /\ Routed
    BY <1>1, HandAlone DEF Inv
<1>5. \A r \in TxService : Elements(txq'[r]) \subseteq Elements(txq[r]) \cup {hand["ptp"]}
    BY <1>2
<1>6. Keyed(msg'[hand["ptp"]].src, msg'[hand["ptp"]].type)
    BY <1>3, KnownKeys
<1> QED BY <1>1, <1>3, <1>4, <1>5, <1>6, RoutesKept

LEMMA PtpMasterRoutes ==
    ASSUME Inv, PtpMaster
    PROVE  Routed'
<1>1. "ptp" \in RxService \cap TxService /\ hand["ptp"] # None /\ UNCHANGED polled
    BY Services DEF PtpMaster, Handles
<1>2. CASE WriteOrFree("ptp", "ptp")
    BY <1>1, <1>2, KnownKeys, WriteOrFreeRoutes
<1>3. CASE FreeInHand("ptp")
    BY <1>1, <1>3, FreeInHandRoutes
<1>4. CASE /\ hand' = [hand EXCEPT !["ptp"] = None] /\ txq' = [txq EXCEPT !["ptp"] = Append(@, hand["ptp"])]
           /\ msg' = [msg EXCEPT ![hand["ptp"]] = [src |-> "ptp", type |-> "ptp", kind |-> "ptpTick"]]
    BY <1>1, <1>4, SyncRoutes
<1> QED BY <1>2, <1>3, <1>4 DEF PtpMaster, FreeInHand

LEMMA PtpSlaveRoutes ==
    ASSUME Inv, PtpSlave
    PROVE  Routed'
<1>1. "ptp" \in RxService \cap TxService /\ hand["ptp"] # None /\ UNCHANGED polled
    BY Services DEF PtpSlave, Handles
<1> QED BY <1>1, KnownKeys, WriteOrFreeRoutes, FreeInHandRoutes DEF PtpSlave

LEMMA Routes ==
    ASSUME Inv, [Next]_vars
    PROVE  Routed' /\ FreshHit'
<1>1. CASE Poll
    BY <1>1, PollRoutes
<1>2. CASE Dispatch
    BY <1>2, DispatchRoutes
<1> SUFFICES ASSUME ~Poll, ~Dispatch PROVE Routed' /\ FreshHit'
    BY <1>1, <1>2
<1>3. UNCHANGED <<polled, hit>>
    BY DEF Next, Scheduler, Map, Ptp, DataResponse, RegroupService, ArpService, Receive, Configure,
           TimerOut, ReadRx, RcHandler, ToRcQueue, MapOther, PtpMaster, PtpSlave, MakeOffset, Send,
           Regroup, ArpReply, Handles, vars
<1> SUFFICES Routed'
    BY <1>3 DEF Inv, FreshHit
<1>4. CASE Receive
    BY <1>4, <1>3, Services, WriteNewRoutes DEF Receive
<1>5. CASE Configure
    BY <1>5, Services, KnownKeys, WriteNewRoutes DEF Configure
<1>6. CASE TimerOut
    BY <1>6, Services, KnownKeys, WriteNewRoutes DEF TimerOut
<1>7. CASE \E s \in RxService : ReadRx(s)
    <2>1. /\ \A s \in RxService : s # "scheduler" /\ s \in Thread /\ "scheduler" \in Thread
          /\ hand \in [Thread -> Buffer \cup {None}]
        BY Services DEF Inv, TypeOK
    <2>2. hand'["scheduler"] = hand["scheduler"] /\ UNCHANGED <<msg, txq, polled>>
        BY <1>7, <2>1 DEF ReadRx
    <2> QED BY <2>2 DEF Inv, Routed, Known
<1>8. CASE RcHandler
    BY <1>8, RcHandlerRoutes
<1>9. CASE ToRcQueue
    BY <1>9, ToRcQueueRoutes
<1>10. CASE MapOther
    BY <1>10, Services, KnownKeys, FreeInHandRoutes, WriteOrFreeRoutes DEF MapOther, Handles
<1>11. CASE PtpMaster
    BY <1>11, PtpMasterRoutes
<1>12. CASE PtpSlave
    BY <1>12, PtpSlaveRoutes
<1>13. CASE MakeOffset
    <2>1. CASE \E c \in Buffer : WriteNew("ptp", c, "nmac", "offset")
        BY <1>13, <2>1, Services, KnownKeys, WriteNewRoutes DEF MakeOffset
    <2>2. CASE UNCHANGED <<free, msg, txq, ahead>>
        BY <1>13, <2>2 DEF MakeOffset, Inv, Routed, Known
    <2> QED BY <1>13, <2>1, <2>2 DEF MakeOffset
<1>14. CASE Send
    BY <1>14, Services, FreeInHandRoutes DEF Send, Handles
<1>15. CASE Regroup
    BY <1>15, Services, KnownKeys, FreeInHandRoutes, WriteOrFreeRoutes DEF Regroup, Handles
<1>16. CASE ArpReply
    BY <1>16, Services, KnownKeys, FreeInHandRoutes, WriteOrFreeRoutes DEF ArpReply, Handles
<1>17. CASE UNCHANGED vars
    BY <1>17 DEF vars, Inv, Routed, FreshHit, Known
<1>18. \A s \in {"map", "ptp", "response", "regroup", "arp"} : s \in RxService
    BY Services
<1> QED BY <1>4, <1>5, <1>6, <1>7, <1>8, <1>9, <1>10, <1>11, <1>12, <1>13, <1>14, <1>15, <1>16,
           <1>17, <1>18
        DEF Next, Scheduler, Map, Ptp, DataResponse, RegroupService, ArpService

-----------------------------------------------------------------------------
(* Every step keeps the types                                           *)

Lengths ==
    /\ \A s \in TxService : Len(txq[s]) <= TxCap
    /\ \A s \in RxService : Len(rxq[s]) <= RxCap
    /\ Len(rcq) <= RcCap

Marked == msg \in [Buffer -> Message] /\ ahead \in [Buffer -> SUBSET Buffer]

Counted == polled \in 1 .. Len(TxOrder) /\ hit \in BOOLEAN /\ offsets \in 0 .. 4

LEMMA TypeParts ==
    /\ TypeOK => Lengths /\ Marked /\ Counted
    /\ QueuesTyped' /\ Lengths' /\ Marked' /\ Counted' /\ m_s_flag' \in Roles => TypeOK'
<1>1. TypeOK => Lengths /\ Marked /\ Counted
    BY DEF TypeOK, Lengths, Marked, Counted, BoundedQueue
<1>2. ASSUME QueuesTyped', Lengths', Marked', Counted', m_s_flag' \in Roles PROVE TypeOK'
    <2>1. /\ \A s \in TxService : Elements(txq'[s]) \subseteq Buffer
          /\ \A s \in RxService : Elements(rxq'[s]) \subseteq Buffer
          /\ Elements(rcq') \subseteq Buffer
        BY <1>2, ElementsTyped DEF QueuesTyped
    <2> QED BY <1>2, <2>1 DEF TypeOK, QueuesTyped, Lengths, Marked, Counted, BoundedQueue
<1> QED BY <1>1, <1>2

LEMMA MessageTypes ==
    /\ \A p \in Packet : PacketType[p] \in {"nmac", "regroup", "arp", "forward", "ptp"}
    /\ Blank \in Message
    /\ \A s \in TxService, p \in Packet : [src |-> s, type |-> PacketType[p], kind |-> p] \in Message
    /\ \A s \in TxService, type \in {"nmac", "ptp", "mapTick", "ptpTick"},
          kind \in {"config", "offset", "mapTick", "ptpTick"} :
          [src |-> s, type |-> type, kind |-> kind] \in Message
<1>1. \A p \in Packet : PacketType[p] \in {"nmac", "regroup", "arp", "forward", "ptp"}
    <2> SUFFICES ASSUME NEW p \in Packet
                 PROVE  PacketType[p] \in {"nmac", "regroup", "arp", "forward", "ptp"}
        OBVIOUS
    <2>1. p \in {"nmac", "ts", "regroup", "arp", "rc", "be", "unmapped", "sync", "delayReq", "delayResp"}
        BY ScheduleAssumption DEF ScheduleAssumption
    <2> QED BY <2>1 DEF PacketType
<1> QED BY <1>1 DEF Blank, Message

LEMMA ForgottenMarks ==
    ASSUME Marked, NEW b \in Buffer, Forgotten(b)
    PROVE  Marked'
BY MessageTypes DEF Marked, Forgotten

LEMMA InSystemTyped ==
    ASSUME QueuesTyped
    PROVE  InSystem \subseteq Buffer
<1>1. /\ \A s \in TxService : Elements(txq[s]) \subseteq Buffer
      /\ \A s \in RxService : Elements(rxq[s]) \subseteq Buffer
      /\ Elements(rcq) \subseteq Buffer
      /\ {hand[t] : t \in Thread} \ {None} \subseteq Buffer
    BY ElementsTyped DEF QueuesTyped
<1> QED BY <1>1 DEF InSystem

LEMMA WriteNewTypes ==
    ASSUME Inv, NEW s \in TxService, NEW c, NEW type, NEW kind, WriteNew(s, c, type, kind),
           [src |-> s, type |-> type, kind |-> kind] \in Message, UNCHANGED <<rxq, rcq>>
    PROVE  Lengths' /\ Marked'
<1>1. Lengths /\ Marked /\ QueuesTyped
    BY TypeParts DEF Inv, Home
<1>2. Lengths'
    <2>1. Len(txq[s]) < TxCap /\ txq[s] \in Seq(Buffer) /\ c \in Buffer /\ txq \in [TxService -> Seq(Buffer)]
        BY <1>1 DEF WriteNew, QueuesTyped
    <2>2. txq'[s] = Append(txq[s], c) /\ \A r \in TxService : r # s => txq'[r] = txq[r]
        BY <2>1 DEF WriteNew
    <2>3. Len(txq'[s]) <= TxCap
        BY <2>1, <2>2, AppendFacts, ScheduleAssumption DEF ScheduleAssumption
    <2> QED BY <1>1, <2>2, <2>3 DEF Lengths
<1>3. {d \in InSystem : msg[d].kind = kind} \subseteq Buffer
    BY <1>1, InSystemTyped
<1>4. Marked'
    BY <1>1, <1>3 DEF Marked, WriteNew
<1> QED BY <1>2, <1>4

LEMMA FreeInHandTypes ==
    ASSUME Inv, NEW s \in RxService, hand[s] # None, FreeInHand(s), UNCHANGED <<rxq, rcq>>
    PROVE  Lengths' /\ Marked'
<1>1. Lengths /\ Marked /\ hand[s] \in Buffer
    BY TypeParts, Services DEF Inv, TypeOK
<1> QED BY <1>1, ForgottenMarks DEF Lengths, FreeInHand, Release

LEMMA WriteOrFreeTypes ==
    ASSUME Inv, NEW s \in RxService \cap TxService, NEW type \in {"regroup", "arp", "forward", "ptp"},
           hand[s] # None, WriteOrFree(s, type), UNCHANGED <<rxq, rcq>>
    PROVE  Lengths' /\ Marked'
<1>1. Lengths /\ Marked /\ QueuesTyped /\ hand[s] \in Buffer
    BY TypeParts, Services DEF Inv, Home, TypeOK
<1>2. CASE Release(hand[s]) /\ UNCHANGED txq
    BY <1>1, <1>2, ForgottenMarks DEF Lengths, Release
<1>3. CASE /\ Len(txq[s]) < TxCap /\ txq' = [txq EXCEPT ![s] = Append(@, hand[s])]
           /\ msg' = [msg EXCEPT ![hand[s]].src = s, ![hand[s]].type = type] /\ UNCHANGED ahead
    <2>1. txq[s] \in Seq(Buffer) /\ txq \in [TxService -> Seq(Buffer)]
        BY <1>1 DEF QueuesTyped
    <2>2. txq'[s] = Append(txq[s], hand[s]) /\ \A r \in TxService : r # s => txq'[r] = txq[r]
        BY <1>3, <2>1
    <2>3. Len(txq'[s]) <= TxCap
        BY <1>1, <1>3, <2>1, <2>2, AppendFacts, ScheduleAssumption DEF ScheduleAssumption
    <2>4. Marked'
        BY <1>1, <1>3 DEF Marked, Message
    <2> QED BY <1>1, <2>2, <2>3, <2>4 DEF Lengths
<1> QED BY <1>2, <1>3 DEF WriteOrFree

LEMMA PollTypes ==
    ASSUME Inv, Poll
    PROVE  Lengths' /\ Marked'
<1> DEFINE s == TxOrder[polled]
<1>1. Lengths /\ Marked /\ s \in TxService /\ txq \in [TxService -> Seq(Buffer)]
    BY TypeParts, Services DEF Inv, Home, QueuesTyped, TypeOK
<1>2. Marked'
    BY <1>1 DEF Poll, Marked
<1> HIDE DEF s
<1>3. CASE UNCHANGED txq
    BY <1>1, <1>2, <1>3 DEF Poll, Lengths
<1>4. CASE txq[s] # <<>> /\ txq' = [txq EXCEPT ![s] = Tail(@)]
    <2>1. txq[s] \in Seq(Buffer) /\ Distinct(txq[s])
        BY <1>1 DEF Inv, Home, QueuesDistinct
    <2>2. Len(Tail(txq[s])) = Len(txq[s]) - 1 /\ Len(txq[s]) \in Nat
        BY <1>4, <2>1, TailFacts
    <2>3. txq'[s] = Tail(txq[s]) /\ \A r \in TxService : r # s => txq'[r] = txq[r]
        BY <1>1, <1>4
    <2>4. Len(txq'[s]) <= TxCap
        BY <1>1, <2>2, <2>3, ScheduleAssumption DEF ScheduleAssumption, Lengths
    <2> QED BY <1>1, <1>2, <2>3, <2>4 DEF Lengths, Poll
<1> QED BY <1>3, <1>4 DEF Poll, s

LEMMA DispatchTypes ==
    ASSUME Inv, Dispatch
    PROVE  Lengths' /\ Marked'
<1> DEFINE b == hand["scheduler"]
<1>1. Lengths /\ Marked /\ b \in Buffer /\ rxq \in [RxService -> Seq(Buffer)]
    BY TypeParts, Services DEF Inv, Home, QueuesTyped, TypeOK, Dispatch
<1> HIDE DEF b
<1>2. CASE \E d \in Destination(b) : /\ Len(rxq[d]) < RxCap /\ rxq' = [rxq EXCEPT ![d] = Append(@, b)]
                                    /\ UNCHANGED <<msg, ahead>>
    <2>1. PICK d \in Destination(b) : /\ Len(rxq[d]) < RxCap /\ rxq' = [rxq EXCEPT ![d] = Append(@, b)]
                                    /\ UNCHANGED <<msg, ahead>>
        BY <1>2
    <2>2. \A e \in Table : e[3] \in RxService
        BY Services DEF Table
    <2>3. d \in RxService
        BY <2>1, <2>2 DEF Destination
    <2>4. rxq'[d] = Append(rxq[d], b) /\ \A r \in RxService : r # d => rxq'[r] = rxq[r]
        BY <1>1, <2>1, <2>3
    <2>5. Len(rxq'[d]) <= RxCap
        BY <1>1, <2>1, <2>3, <2>4, AppendFacts, ScheduleAssumption DEF ScheduleAssumption
    <2> QED BY <1>1, <2>1, <2>4, <2>5 DEF Lengths, Marked, Dispatch
<1>3. CASE Forgotten(b) /\ UNCHANGED rxq
    BY <1>1, <1>3, ForgottenMarks DEF Lengths, Dispatch
<1> QED BY <1>2, <1>3 DEF Dispatch, Release, b

LEMMA ReadRxTypes ==
    ASSUME Inv, NEW s \in RxService, ReadRx(s)
    PROVE  Lengths' /\ Marked'
<1>1. /\ Lengths /\ Marked /\ rxq \in [RxService -> Seq(Buffer)]
      /\ rxq[s] \in Seq(Buffer) /\ Distinct(rxq[s])
    BY TypeParts DEF Inv, Home, QueuesTyped, QueuesDistinct
<1>2. Len(Tail(rxq[s])) = Len(rxq[s]) - 1 /\ Len(rxq[s]) \in Nat
    BY <1>1, TailFacts DEF ReadRx
<1>3. rxq'[s] = Tail(rxq[s]) /\ \A r \in RxService : r # s => rxq'[r] = rxq[r]
    BY <1>1 DEF ReadRx
<1>4. Len(rxq'[s]) <= RxCap
    BY <1>1, <1>2, <1>3, ScheduleAssumption DEF ScheduleAssumption, Lengths
<1> QED BY <1>1, <1>3, <1>4 DEF Lengths, Marked, ReadRx

LEMMA RcTypes ==
    ASSUME Inv, RcHandler \/ ToRcQueue
    PROVE  Lengths' /\ Marked'
<1>1. /\ Lengths /\ Marked /\ rcq \in Seq(Buffer) /\ Distinct(rcq) /\ hand["map"] \in Buffer
      /\ RcCap \in Nat
    BY TypeParts, Services, ScheduleAssumption
       DEF Inv, Home, QueuesTyped, QueuesDistinct, TypeOK, RcHandler, ToRcQueue, Handles, ScheduleAssumption
<1>2. CASE RcHandler
    <2>1. Len(rcq') <= RcCap
        <3>1. CASE rcq = <<>>
            BY <1>1, <1>2, <3>1 DEF RcHandler, Lengths
        <3>2. CASE rcq # <<>>
            <4>1. Len(Tail(rcq)) = Len(rcq) - 1 /\ Len(rcq) \in Nat
                BY <1>1, <3>2, TailFacts
            <4>2. rcq' = Tail(rcq)
                BY <1>2, <3>2 DEF RcHandler
            <4> QED BY <1>1, <4>1, <4>2 DEF Lengths
        <3> QED BY <3>1, <3>2
    <2> QED BY <1>1, <1>2, <2>1, ForgottenMarks DEF RcHandler, Release, Lengths, Handles
<1>3. CASE ToRcQueue
    <2>1. CASE RcRoom
        <3>1. rcq' = Append(rcq, hand["map"]) /\ Len(rcq) < RcCap
            BY <1>3, <2>1 DEF ToRcQueue, RcRoom
        <3>2. Len(rcq') <= RcCap
            BY <1>1, <3>1, AppendFacts
        <3>3. Marked'
            <4>1. "map" \in TxService
                BY Services
            <4>2. msg' = [msg EXCEPT ![hand["map"]].src = "map"] /\ UNCHANGED ahead
                BY <1>3, <2>1 DEF ToRcQueue
            <4> QED BY <1>1, <4>1, <4>2 DEF Marked, Message
        <3> QED BY <1>1, <1>3, <3>2, <3>3 DEF ToRcQueue, Lengths, Handles
    <2>2. CASE ~RcRoom
        BY <1>1, <1>3, <2>2, ForgottenMarks DEF ToRcQueue, Lengths, Handles
    <2> QED BY <2>1, <2>2
<1> QED BY <1>2, <1>3

LEMMA PtpTypes ==
    ASSUME Inv, PtpMaster \/ PtpSlave
    PROVE  Lengths' /\ Marked'
<1>1. /\ "ptp" \in RxService \cap TxService /\ hand["ptp"] # None /\ UNCHANGED <<rxq, rcq>>
    BY Services DEF PtpMaster, PtpSlave, Handles
<1>2. CASE FreeInHand("ptp")
    BY <1>1, <1>2, FreeInHandTypes
<1>3. CASE WriteOrFree("ptp", "ptp")
    BY <1>1, <1>3, WriteOrFreeTypes
<1>4. CASE /\ Len(txq["ptp"]) < TxCap /\ txq' = [txq EXCEPT !["ptp"] = Append(@, hand["ptp"])]
           /\ msg' = [msg EXCEPT ![hand["ptp"]] = [src |-> "ptp", type |-> "ptp", kind |-> "ptpTick"]]
           /\ UNCHANGED ahead
    <2>1. /\ Lengths /\ Marked /\ hand["ptp"] \in Buffer /\ txq \in [TxService -> Seq(Buffer)]
        BY <1>1, TypeParts, Services DEF Inv, Home, QueuesTyped, TypeOK
    <2>2. txq'["ptp"] = Append(txq["ptp"], hand["ptp"]) /\ \A r \in TxService : r # "ptp" => txq'[r] = txq[r]
        BY <1>1, <1>4, <2>1
    <2>3. Len(txq'["ptp"]) <= TxCap
        BY <1>1, <1>4, <2>1, <2>2, AppendFacts, ScheduleAssumption DEF ScheduleAssumption
    <2>4. Marked'
        BY <1>1, <1>4, <2>1, MessageTypes DEF Marked
    <2> QED BY <1>1, <2>1, <2>2, <2>3, <2>4 DEF Lengths
<1> QED BY <1>2, <1>3, <1>4 DEF PtpMaster, PtpSlave, FreeInHand

LEMMA Types ==
    ASSUME Inv, [Next]_vars
    PROVE  Lengths' /\ Marked'
<1>1. CASE Poll
    BY <1>1, PollTypes
<1>2. CASE Dispatch
    BY <1>2, DispatchTypes
<1>3. CASE Receive
    BY <1>3, Services, MessageTypes, WriteNewTypes DEF Receive
<1>4. CASE Configure
    BY <1>4, Services, MessageTypes, WriteNewTypes DEF Configure
<1>5. CASE TimerOut
    BY <1>5, Services, MessageTypes, WriteNewTypes DEF TimerOut
<1>6. CASE \E s \in RxService : ReadRx(s)
    BY <1>6, ReadRxTypes
<1>7. CASE RcHandler \/ ToRcQueue
    BY <1>7, RcTypes
<1>8. CASE MapOther
    BY <1>8, Services, FreeInHandTypes, WriteOrFreeTypes DEF MapOther, Handles
<1>9. CASE PtpMaster \/ PtpSlave
    BY <1>9, PtpTypes
<1>10. CASE MakeOffset
    <2>1. CASE \E c \in Buffer : WriteNew("ptp", c, "nmac", "offset")
        BY <1>10, <2>1, Services, MessageTypes, WriteNewTypes DEF MakeOffset
    <2>2. CASE UNCHANGED <<free, msg, txq, ahead>>
        BY <1>10, <2>2, TypeParts DEF MakeOffset, Inv, Lengths, Marked
    <2> QED BY <1>10, <2>1, <2>2 DEF MakeOffset
<1>11. CASE Send
    BY <1>11, Services, FreeInHandTypes DEF Send, Handles
<1>12. CASE Regroup
    BY <1>12, Services, FreeInHandTypes, WriteOrFreeTypes DEF Regroup, Handles
<1>13. CASE ArpReply
    BY <1>13, Services, FreeInHandTypes, WriteOrFreeTypes DEF ArpReply, Handles
<1>14. CASE UNCHANGED vars
    BY <1>14, TypeParts DEF vars, Inv, Lengths, Marked
<1>15. \A s \in {"map", "ptp", "response", "regroup", "arp"} : s \in RxService
    BY Services
<1> QED BY <1>1, <1>2, <1>3, <1>4, <1>5, <1>6, <1>7, <1>8, <1>9, <1>10, <1>11, <1>12, <1>13,
           <1>14, <1>15
        DEF Next, Scheduler, Map, Ptp, DataResponse, RegroupService, ArpService

LEMMA Counts ==
    ASSUME Inv, [Next]_vars
    PROVE  Counted' /\ m_s_flag' \in Roles
<1>1. /\ polled \in 1 .. 7 /\ Len(TxOrder) = 7 /\ hit \in BOOLEAN /\ offsets \in 0 .. 4
      /\ m_s_flag \in Roles
    BY Services DEF Inv, TypeOK
<1>2. ASSUME NEW flag \in BOOLEAN, Advance(flag) PROVE polled' \in 1 .. 7 /\ hit' \in BOOLEAN
    BY <1>1, <1>2 DEF Advance
<1>3. polled' \in 1 .. 7 /\ hit' \in BOOLEAN
    <2>1. CASE Poll \/ Dispatch
        BY <1>1, <1>2, <2>1 DEF Poll, Dispatch
    <2>2. CASE UNCHANGED <<polled, hit>>
        BY <1>1, <2>2
    <2> QED BY <2>1, <2>2
        DEF Next, Scheduler, Map, Ptp, DataResponse, RegroupService, ArpService, Receive, Configure,
            TimerOut, ReadRx, RcHandler, ToRcQueue, MapOther, PtpMaster, PtpSlave, MakeOffset, Send,
            Regroup, ArpReply, Handles, vars
<1>4. offsets' \in 0 .. 4
    <2>1. CASE PtpSlave
        BY <1>1, <2>1 DEF PtpSlave
    <2>2. CASE MakeOffset
        BY <1>1, <2>2 DEF MakeOffset
    <2>3. CASE UNCHANGED offsets
        BY <1>1, <2>3
    <2> QED BY <2>1, <2>2, <2>3
        DEF Next, Scheduler, Map, Ptp, DataResponse, RegroupService, ArpService, Receive, Configure,
            TimerOut, ReadRx, RcHandler, ToRcQueue, MapOther, PtpMaster, Send, Regroup, ArpReply,
            Poll, Dispatch, vars
<1>5. m_s_flag' \in Roles
    BY <1>1 DEF Next, vars
<1> QED BY <1>1, <1>3, <1>4, <1>5 DEF Counted

-----------------------------------------------------------------------------
(* The invariant, and what follows from it                                   *)

LEMMA InitInv == Init => Inv
<1> SUFFICES ASSUME Init PROVE Inv
    OBVIOUS
<1>1. /\ QueuesTyped /\ QueuesDistinct
      /\ (\A s \in TxService : txq[s] = <<>>) /\ (\A s \in RxService : rxq[s] = <<>>) /\ rcq = <<>>
    BY DEF Init, QueuesTyped, QueuesDistinct, Distinct
<1>2. Elements(<<>>) = {}
    BY DEF Elements
<1>3. Apart
    <2>1. \A p \in Place : p # <<"free", "list">> => at[p] = {}
        <3> SUFFICES ASSUME NEW p \in Place, p # <<"free", "list">> PROVE at[p] = {}
            OBVIOUS
        <3>1. CASE \E s \in TxService : p = <<"tx", s>>
            BY <1>1, <1>2, <3>1, AtFacts
        <3>2. CASE \E s \in RxService : p = <<"rx", s>>
            BY <1>1, <1>2, <3>2, AtFacts
        <3>3. CASE \E t \in Thread : p = <<"hand", t>>
            BY <3>3, AtFacts DEF Init
        <3>4. CASE p = <<"rc", "queue">>
            BY <1>1, <1>2, <3>4, AtFacts
        <3> QED BY <3>1, <3>2, <3>3, <3>4, Places
    <2> QED BY <2>1 DEF Apart
<1>4. TypeOK
    <2>1. \A s \in TxService : BoundedQueue(txq[s], TxCap)
        BY <1>1, <1>2, ScheduleAssumption DEF BoundedQueue, ScheduleAssumption
    <2>2. \A s \in RxService : BoundedQueue(rxq[s], RxCap)
        BY <1>1, <1>2, ScheduleAssumption DEF BoundedQueue, ScheduleAssumption
    <2>3. BoundedQueue(rcq, RcCap)
        BY <1>1, <1>2, ScheduleAssumption DEF BoundedQueue, ScheduleAssumption
    <2>4. msg \in [Buffer -> Message]
        BY MessageTypes DEF Init
    <2>5. polled \in 1 .. Len(TxOrder) /\ offsets \in 0 .. 4
        BY Services DEF Init
    <2>6. m_s_flag \in Roles /\ hit \in BOOLEAN /\ ahead \in [Buffer -> SUBSET Buffer]
        BY DEF Init
    <2> QED BY <1>1, <2>1, <2>2, <2>3, <2>4, <2>5, <2>6 DEF TypeOK, QueuesTyped
<1>5. Routed
    <2>1. "scheduler" \in Thread
        BY Services
    <2> QED BY <1>1, <1>2, <2>1 DEF Init, Routed
<1>6. FreshHit
    BY DEF Init, FreshHit
<1> QED BY <1>1, <1>3, <1>4, <1>5, <1>6 DEF Inv, Home

LEMMA NextInv == Inv /\ [Next]_vars => Inv'
<1> SUFFICES ASSUME Inv, [Next]_vars PROVE Inv'
    OBVIOUS
<1>1. Home'
    BY Moves
<1>2. TypeOK'
    BY <1>1, Types, Counts, TypeParts DEF Home
<1> QED BY <1>1, <1>2, Routes DEF Inv

\* InSystem and the free buffers are what is in a place.
LEMMA EverywhereIs == QueuesTyped => free \cup InSystem = Everywhere
<1> SUFFICES ASSUME QueuesTyped PROVE free \cup InSystem = Everywhere
    OBVIOUS
<1>1. free \cup InSystem \subseteq Buffer
    BY InSystemTyped DEF QueuesTyped
<1>2. ASSUME NEW b \in Everywhere PROVE b \in free \cup InSystem
    <2>1. PICK p \in Place : b \in at[p]
        BY <1>2 DEF Everywhere
    <2> QED BY <2>1, Places, AtFacts DEF InSystem
<1>3. ASSUME NEW b \in free \cup InSystem PROVE \E p \in Place : b \in at[p]
    <2>1. CASE b \in free
        BY <2>1, AtFacts
    <2>2. CASE \E s \in TxService : b \in Elements(txq[s])
        BY <2>2, AtFacts
    <2>3. CASE \E s \in RxService : b \in Elements(rxq[s])
        BY <2>3, AtFacts
    <2>4. CASE b \in Elements(rcq)
        BY <2>4, AtFacts
    <2>5. CASE \E t \in Thread : b \in {hand[t]} \ {None}
        BY <2>5, AtFacts
    <2> QED BY <1>3, <2>1, <2>2, <2>3, <2>4, <2>5 DEF InSystem
<1> QED BY <1>1, <1>2, <1>3 DEF Everywhere

LEMMA AtMostOne ==
    ASSUME NEW S, \A x, y \in S : x = y
    PROVE  /\ Cardinality(S) \in {0, 1}
           /\ Cardinality(S) = 0 <=> S = {}
<1>1. CASE S = {}
    BY <1>1, FS_EmptySet
<1>2. CASE S # {}
    <2>1. PICK x : S = {x}
        BY <1>2
    <2> QED BY <2>1, FS_Singleton
<1> QED BY <1>1, <1>2

LEMMA CopiesIn ==
    ASSUME NEW q \in Seq(Buffer), NEW b, Distinct(q)
    PROVE  Copies(q, b) \in {0, 1} /\ (Copies(q, b) = 0 <=> b \notin Elements(q))
<1> DEFINE S == {i \in 1 .. Len(q) : q[i] = b}
<1>1. \A i, j \in S : i = j
    BY DEF Distinct
<1>2. S = {} <=> b \notin Elements(q)
    BY DEF Elements
<1> HIDE DEF S
<1>3. Cardinality(S) \in {0, 1} /\ (Cardinality(S) = 0 <=> S = {})
    BY <1>1, AtMostOne
<1> QED BY <1>2, <1>3 DEF Copies, S

LEMMA HomeHandledOnce == TypeOK /\ Home => HandledOnce
<1> SUFFICES ASSUME TypeOK, Home, NEW b \in Buffer
             PROVE  /\ Holders(b) <= (IF b \in free THEN 0 ELSE 1)
                    /\ \A s \in TxService : Copies(txq[s], b) <= 1
                    /\ \A s \in RxService : Copies(rxq[s], b) <= 1
    BY DEF HandledOnce
<1>1. /\ \A s \in TxService : Copies(txq[s], b) \in {0, 1}
                              /\ (Copies(txq[s], b) = 0 <=> b \notin at[<<"tx", s>>])
      /\ \A s \in RxService : Copies(rxq[s], b) \in {0, 1}
                              /\ (Copies(rxq[s], b) = 0 <=> b \notin at[<<"rx", s>>])
      /\ Copies(rcq, b) \in {0, 1} /\ (Copies(rcq, b) = 0 <=> b \notin at[<<"rc", "queue">>])
    BY CopiesIn, AtFacts DEF Home, QueuesTyped, QueuesDistinct
<1>2. \A t \in Thread : hand[t] = b <=> b \in at[<<"hand", t>>]
    <2>1. b # None
        BY ScheduleAssumption DEF ScheduleAssumption
    <2>2. \A t \in Thread : at[<<"hand", t>>] = {hand[t]} \ {None}
        BY AtFacts
    <2> QED BY <2>1, <2>2
<1> DEFINE T == {s \in TxService : Copies(txq[s], b) > 0}
           R == {s \in RxService : Copies(rxq[s], b) > 0}
           H == {t \in Thread : hand[t] = b}
<1>3. /\ \A s \in T : s \in TxService /\ b \in at[<<"tx", s>>]
      /\ \A s \in R : s \in RxService /\ b \in at[<<"rx", s>>]
      /\ \A t \in H : t \in Thread /\ b \in at[<<"hand", t>>]
    BY <1>1, <1>2
<1> HIDE DEF T, R, H
\* Two places that hold b are the same place.
<1>4. \A p, q \in Place : b \in at[p] /\ b \in at[q] => p = q
    BY DEF Home, Apart
<1>5. /\ \A s, r \in T : s = r
      /\ \A s, r \in R : s = r
      /\ \A s, r \in H : s = r
    <2>1. ASSUME NEW s \in T, NEW r \in T PROVE s = r
        <3>1. <<"tx", s>> = <<"tx", r>>
            BY <1>3, <1>4, AtFacts
        <3> QED BY <3>1
    <2>2. ASSUME NEW s \in R, NEW r \in R PROVE s = r
        <3>1. <<"rx", s>> = <<"rx", r>>
            BY <1>3, <1>4, AtFacts
        <3> QED BY <3>1
    <2>3. ASSUME NEW s \in H, NEW r \in H PROVE s = r
        <3>1. <<"hand", s>> = <<"hand", r>>
            BY <1>3, <1>4, AtFacts
        <3> QED BY <3>1
    <2> QED BY <2>1, <2>2, <2>3
<1>6. /\ Cardinality(T) \in {0, 1} /\ (Cardinality(T) = 0 <=> T = {})
      /\ Cardinality(R) \in {0, 1} /\ (Cardinality(R) = 0 <=> R = {})
      /\ Cardinality(H) \in {0, 1} /\ (Cardinality(H) = 0 <=> H = {})
    BY <1>5, AtMostOne
<1>7. /\ T # {} => \E s \in TxService : <<"tx", s>> \in Place /\ b \in at[<<"tx", s>>]
      /\ R # {} => \E s \in RxService : <<"rx", s>> \in Place /\ b \in at[<<"rx", s>>]
      /\ H # {} => \E t \in Thread : <<"hand", t>> \in Place /\ b \in at[<<"hand", t>>]
    BY <1>3, AtFacts
<1>8. /\ T # {} => R = {} /\ H = {} /\ b \notin at[<<"rc", "queue">>] /\ b \notin free
      /\ R # {} => H = {} /\ b \notin at[<<"rc", "queue">>] /\ b \notin free
      /\ H # {} => b \notin at[<<"rc", "queue">>] /\ b \notin free
      /\ b \in at[<<"rc", "queue">>] => b \notin free
    BY <1>4, <1>7, AtFacts
<1>9. Holders(b) = Cardinality(T) + Cardinality(R) + Copies(rcq, b) + Cardinality(H)
    BY DEF Holders, T, R, H
<1> DEFINE C == Copies(rcq, b)
<1>10. C \in {0, 1} /\ (C = 0 <=> b \notin at[<<"rc", "queue">>])
    BY <1>1
<1> HIDE DEF C
<1>11. Holders(b) <= (IF b \in free THEN 0 ELSE 1)
    <2>1. CASE T # {}
        BY <1>6, <1>8, <1>9, <1>10, <2>1 DEF C
    <2>2. CASE T = {} /\ R # {}
        BY <1>6, <1>8, <1>9, <1>10, <2>2 DEF C
    <2>3. CASE T = {} /\ R = {} /\ H # {}
        BY <1>6, <1>8, <1>9, <1>10, <2>3 DEF C
    <2>4. CASE T = {} /\ R = {} /\ H = {}
        BY <1>6, <1>8, <1>9, <1>10, <2>4 DEF C
    <2> QED BY <2>1, <2>2, <2>3, <2>4
<1>12. /\ \A s \in TxService : Copies(txq[s], b) <= 1
       /\ \A s \in RxService : Copies(rxq[s], b) <= 1
    <2>1. \A n \in {0, 1} : n <= 1
        OBVIOUS
    <2> QED BY <1>1, <2>1
<1> QED BY <1>11, <1>12

\* The types of the variables, with the capacities of the queues of
\* lib/quene.c: whatever the threads do, no queue holds more than its size.
THEOREM TypeCorrect == Spec => []TypeOK
<1>1. Inv => TypeOK
    BY DEF Inv
<1> QED BY InitInv, NextInv, <1>1, PTL DEF Spec

\* However the scheduler and the service threads interleave, a message is in
\* one queue, or worked on by one service, or free: never two of these.
THEOREM MessagesHandledOnce == Spec => []HandledOnce
<1>1. Inv => HandledOnce
    BY HomeHandledOnce DEF Inv
<1> QED BY InitInv, NextInv, <1>1, PTL DEF Spec

\* No step loses a buffer, but for the free that is commented out in
\* map_handler: the error path of hx_msg_schedule never does, because the
\* message of a known key is never the one that it finds.
THEOREM NoneForgotten == Spec => NothingForgotten
<1> DEFINE Step == LET b == hand["map"]
                       unkept == {c \in {b} : b # None /\ msg[b].kind = "rc" /\ msg[b].src = "request" /\ ~RcRoom}
                   IN  free \cup InSystem \subseteq (free \cup InSystem)' \cup unkept
<1>1. (QueuesTyped => free \cup InSystem = Everywhere)'
    BY EverywhereIs, PTL
<1>2. Inv /\ [Next]_vars => Step
    <2> SUFFICES ASSUME Inv, [Next]_vars PROVE Step
        OBVIOUS
    <2>1. Home' /\ Everywhere \subseteq Everywhere' \cup Unkept
        BY Moves
    <2>2. free \cup InSystem = Everywhere /\ (free \cup InSystem)' = Everywhere'
        BY <1>1, <2>1, EverywhereIs DEF Inv, Home
    <2>3. Unkept = {c \in {hand["map"]} : hand["map"] # None /\ msg[hand["map"]].kind = "rc"
                                              /\ msg[hand["map"]].src = "request" /\ ~RcRoom}
        BY DEF Unkept
    <2> QED BY <2>1, <2>2, <2>3
<1> HIDE DEF Step
<1>3. Spec => [][Step]_vars
    BY InitInv, NextInv, <1>2, PTL DEF Spec
<1> QED BY <1>3 DEF NothingForgotten, Step

-----------------------------------------------------------------------------
(* The order of the messages of a flow                                       *)

\* The places on the way of a message.
Way == Place \ {<<"free", "list">>}

\* The services whose messages are on the first half of their way.
Front == {"request", "timer"}

\* Where the messages of a kind come from, and who handles them.
Origin(kind) ==
    IF kind \in Packet THEN "request"
    ELSE IF kind \in {"mapTick", "ptpTick"} THEN "timer"
    ELSE IF kind = "config" THEN "nmac" ELSE "ptp"
Via(kind) ==
    IF kind \in {"rc", "be", "unmapped", "mapTick"} THEN "map"
    ELSE IF kind \in {"sync", "delayReq", "delayResp", "ptpTick", "offset"} THEN "ptp"
    ELSE IF kind \in {"ts", "regroup"} THEN "regroup"
    ELSE IF kind = "arp" THEN "arp"
    ELSE IF kind = "config" THEN "nmac" ELSE "none"
FirstType(kind) == IF kind \in Packet THEN PacketType[kind] ELSE kind

\* A message m can be at p: before its service has handled it, and after.
Coming(m, p) ==
    /\ m.src = Origin(m.kind) /\ m.src \in Front /\ m.type = FirstType(m.kind)
    /\ p \in {<<"tx", m.src>>, <<"hand", "scheduler">>, <<"rx", Via(m.kind)>>, <<"hand", Via(m.kind)>>}
Going(m, p) ==
    /\ m.src = Via(m.kind) /\ m.src \notin Front
    /\ \/ p \in {<<"tx", m.src>>, <<"hand", "scheduler">>, <<"rx", "response">>, <<"hand", "response">>}
       \/ m.kind = "rc" /\ p \in {<<"rc", "queue">>, <<"hand", "map">>}
OnWay(m, p) == Coming(m, p) \/ Going(m, p)

\* How far that is.
Stage(m, p) ==
    IF p[1] = "tx" THEN IF p[2] \in Front THEN 1 ELSE 7
    ELSE IF p[1] = "rx" THEN IF p[2] = "response" THEN 9 ELSE 3
    ELSE IF p[1] = "rc" THEN 5
    ELSE IF p[2] = "response" THEN 10
    ELSE IF p[2] = "scheduler" THEN IF m.src \in Front THEN 2 ELSE 8
    ELSE IF m.src \in Front THEN 4 ELSE 6

\* The queue of a place; a hand has none.
line == [p \in Place |->
            IF p[1] = "tx" THEN txq[p[2]]
            ELSE IF p[1] = "rx" THEN rxq[p[2]]
            ELSE IF p[1] = "rc" THEN rcq ELSE <<>>]
Before(s, c, b) == \E i, j \in 1 .. Len(s) : i < j /\ s[i] = c /\ s[j] = b

OnWays == \A p \in Way : \A b \in at[p] : OnWay(msg[b], p)

\* c is further on its way than b.
Further(c, b) ==
    \E p, q \in Way :
        /\ b \in at[p] /\ c \in at[q]
        /\ Stage(msg[b], p) < Stage(msg[c], q) \/ (p = q /\ Before(line[p], c, b))

\* What came before b and is still there is further than b.
Ordered ==
    \A b \in Buffer : \A c \in ahead[b] :
        c # b /\ msg[c].kind = msg[b].kind /\ Further(c, b)

\* The stage after i for a kind: only reserved-bandwidth messages wait for a tick.
StepUp(kind, i, j) == j = i + 1 \/ (i = 4 /\ j = 7 /\ kind # "rc")

\* A place says how far a message is, and how far a message is says where it is.
LEMMA Stages ==
    ASSUME NEW m, NEW p, OnWay(m, p)
    PROVE  \/ p = <<"tx", Origin(m.kind)>> /\ Stage(m, p) = 1
           \/ p = <<"hand", "scheduler">> /\ Stage(m, p) = 2
           \/ p = <<"rx", Via(m.kind)>> /\ Stage(m, p) = 3
           \/ p = <<"hand", Via(m.kind)>> /\ Stage(m, p) = 4
           \/ m.kind = "rc" /\ p = <<"rc", "queue">> /\ Stage(m, p) = 5
           \/ m.kind = "rc" /\ p = <<"hand", "map">> /\ Stage(m, p) = 6
           \/ p = <<"tx", Via(m.kind)>> /\ Stage(m, p) = 7
           \/ p = <<"hand", "scheduler">> /\ Stage(m, p) = 8
           \/ p = <<"rx", "response">> /\ Stage(m, p) = 9
           \/ p = <<"hand", "response">> /\ Stage(m, p) = 10
<1> DEFINE v == Via(m.kind)
<1>1. v \in {"map", "ptp", "regroup", "arp", "nmac", "none"}
    BY DEF Via
<1>2. CASE Coming(m, p)
    <2>1. m.src = Origin(m.kind) /\ m.src \in Front
        BY <1>2 DEF Coming
    <2>2. p \in {<<"tx", m.src>>, <<"hand", "scheduler">>, <<"rx", v>>, <<"hand", v>>}
        BY <1>2 DEF Coming
    <2> HIDE DEF v
    <2>3. CASE p = <<"tx", m.src>>
        BY <2>1, <2>3 DEF Stage
    <2>4. CASE p = <<"hand", "scheduler">>
        BY <2>1, <2>4 DEF Stage
    <2>5. CASE p = <<"rx", v>>
        BY <1>1, <2>1, <2>5 DEF Stage, v
    <2>6. CASE p = <<"hand", v>>
        BY <1>1, <2>1, <2>6 DEF Stage, v
    <2> QED BY <2>2, <2>3, <2>4, <2>5, <2>6
<1>3. CASE Going(m, p)
    <2>1. m.src = v /\ m.src \notin Front
        BY <1>3 DEF Going
    <2>2. \/ p \in {<<"tx", v>>, <<"hand", "scheduler">>, <<"rx", "response">>, <<"hand", "response">>}
          \/ m.kind = "rc" /\ p \in {<<"rc", "queue">>, <<"hand", "map">>}
        BY <1>3 DEF Going
    <2> HIDE DEF v
    <2>3. CASE p = <<"tx", v>>
        BY <2>1, <2>3 DEF Stage, v
    <2>4. CASE p = <<"hand", "scheduler">>
        BY <2>1, <2>4 DEF Stage
    <2>5. CASE p = <<"rx", "response">>
        BY <2>5 DEF Stage
    <2>6. CASE p = <<"hand", "response">>
        BY <2>6 DEF Stage
    <2>7. CASE m.kind = "rc" /\ p = <<"rc", "queue">>
        BY <2>7 DEF Stage
    <2>8. CASE m.kind = "rc" /\ p = <<"hand", "map">>
        BY <2>1, <2>8 DEF Stage
    <2> QED BY <2>2, <2>3, <2>4, <2>5, <2>6, <2>7, <2>8
<1> QED BY <1>2, <1>3 DEF OnWay

\* Messages of one kind at one stage are in one place, and none is between two stages.
LEMMA SameStage ==
    ASSUME NEW m, NEW n, NEW p, NEW q, OnWay(m, p), OnWay(n, q), m.kind = n.kind
    PROVE  /\ Stage(m, p) = Stage(n, q) => p = q
           /\ \A j : StepUp(m.kind, Stage(m, p), j) /\ Stage(m, p) < Stage(n, q) => j <= Stage(n, q)
<1>1. Stage(m, p) = Stage(n, q) => p = q
    BY Stages
<1>2. Stage(n, q) \in 1 .. 10 /\ (m.kind # "rc" => Stage(n, q) \notin {5, 6})
    BY Stages
<1>3. Stage(m, p) \in 1 .. 10
    BY Stages
<1> QED BY <1>1, <1>2, <1>3 DEF StepUp


\* Taking the head of a queue, and appending to it.
LEMMA BeforeTail ==
    ASSUME NEW s \in Seq(Buffer), s # <<>>, Distinct(s)
    PROVE  /\ \A y : ~Before(s, y, Head(s))
           /\ \A c, b : c # Head(s) /\ Before(s, c, b) => Before(Tail(s), c, b)
<1>1. /\ Tail(s) \in Seq(Buffer) /\ Len(Tail(s)) = Len(s) - 1 /\ Head(s) = s[1]
      /\ \A i \in 1 .. Len(Tail(s)) : Tail(s)[i] = s[i + 1]
      /\ Len(s) \in Nat /\ Len(s) > 0
    BY HeadTailProperties
<1>2. ASSUME NEW y, Before(s, y, Head(s)) PROVE FALSE
    <2>1. PICK i, j \in 1 .. Len(s) : i < j /\ s[i] = y /\ s[j] = s[1]
        BY <1>1, <1>2 DEF Before
    <2>2. j = 1
        BY <1>1, <2>1 DEF Distinct
    <2> QED BY <2>1, <2>2
<1>3. ASSUME NEW c, NEW b, c # Head(s), Before(s, c, b) PROVE Before(Tail(s), c, b)
    <2>1. PICK i, j \in 1 .. Len(s) : i < j /\ s[i] = c /\ s[j] = b
        BY <1>3 DEF Before
    <2>2. i # 1
        BY <1>1, <1>3, <2>1
    <2>3. i - 1 \in 1 .. Len(Tail(s)) /\ j - 1 \in 1 .. Len(Tail(s)) /\ i - 1 < j - 1
        BY <1>1, <2>1, <2>2
    <2>4. Tail(s)[i - 1] = c /\ Tail(s)[j - 1] = b
        BY <1>1, <2>1, <2>3
    <2> QED BY <2>3, <2>4 DEF Before
<1> QED BY <1>2, <1>3

LEMMA BeforeAppend ==
    ASSUME NEW s \in Seq(Buffer), NEW x \in Buffer
    PROVE  /\ \A y \in Elements(s) : Before(Append(s, x), y, x)
           /\ \A c, b : Before(s, c, b) => Before(Append(s, x), c, b)
<1>1. /\ Append(s, x) \in Seq(Buffer) /\ Len(Append(s, x)) = Len(s) + 1
      /\ \A i \in 1 .. Len(s) : Append(s, x)[i] = s[i]
      /\ Append(s, x)[Len(s) + 1] = x /\ Len(s) \in Nat
    BY AppendProperties
<1>2. ASSUME NEW y \in Elements(s) PROVE Before(Append(s, x), y, x)
    <2>1. PICK i \in 1 .. Len(s) : s[i] = y
        BY DEF Elements
    <2>2. i \in 1 .. Len(Append(s, x)) /\ Len(s) + 1 \in 1 .. Len(Append(s, x)) /\ i < Len(s) + 1
        BY <1>1
    <2>3. Append(s, x)[i] = y
        BY <1>1, <2>1
    <2> QED BY <1>1, <2>2, <2>3 DEF Before
<1>3. ASSUME NEW c, NEW b, Before(s, c, b) PROVE Before(Append(s, x), c, b)
    <2>1. PICK i, j \in 1 .. Len(s) : i < j /\ s[i] = c /\ s[j] = b
        BY <1>3 DEF Before
    <2>2. i \in 1 .. Len(Append(s, x)) /\ j \in 1 .. Len(Append(s, x))
        BY <1>1
    <2>3. Append(s, x)[i] = c /\ Append(s, x)[j] = b
        BY <1>1, <2>1
    <2> QED BY <2>1, <2>2, <2>3 DEF Before
<1> QED BY <1>2, <1>3

\* The queue of each place.
LEMMA LineFacts ==
    /\ \A s \in TxService : <<"tx", s>> \in Way /\ line[<<"tx", s>>] = txq[s]
    /\ \A s \in RxService : <<"rx", s>> \in Way /\ line[<<"rx", s>>] = rxq[s]
    /\ \A t \in Thread : <<"hand", t>> \in Way /\ line[<<"hand", t>>] = <<>>
    /\ <<"rc", "queue">> \in Way /\ line[<<"rc", "queue">>] = rcq
BY AtFacts DEF line, Way

LEMMA LineFactsNext ==
    /\ \A s \in TxService : line'[<<"tx", s>>] = txq'[s]
    /\ \A s \in RxService : line'[<<"rx", s>>] = rxq'[s]
    /\ \A t \in Thread : line'[<<"hand", t>>] = <<>>
    /\ line'[<<"rc", "queue">>] = rcq'
BY AtFacts DEF line

\* A place of which nothing changed keeps its queue.
Still(S) == \A r \in Way \ S : at'[r] = at[r] /\ line'[r] = line[r]

LEMMA LineFrame ==
    ASSUME NEW S,
           \A s \in TxService : txq'[s] = txq[s] \/ <<"tx", s>> \in S,
           \A s \in RxService : rxq'[s] = rxq[s] \/ <<"rx", s>> \in S,
           \A t \in Thread : hand'[t] = hand[t] \/ <<"hand", t>> \in S,
           rcq' = rcq \/ <<"rc", "queue">> \in S
    PROVE  Still(S)
<1> SUFFICES ASSUME NEW r \in Way, r \notin S PROVE at'[r] = at[r] /\ line'[r] = line[r]
    BY DEF Still
<1>1. CASE \E s \in TxService : r = <<"tx", s>>
    <2>1. PICK s \in TxService : r = <<"tx", s>>
        BY <1>1
    <2>2. txq'[s] = txq[s]
        BY <2>1
    <2>3. /\ at[r] = Elements(txq[s]) /\ at'[r] = Elements(txq'[s])
          /\ line[r] = txq[s] /\ line'[r] = txq'[s]
        BY <2>1, AtFacts, AtFactsNext, LineFacts, LineFactsNext
    <2> QED BY <2>2, <2>3
<1>2. CASE \E s \in RxService : r = <<"rx", s>>
    <2>1. PICK s \in RxService : r = <<"rx", s>>
        BY <1>2
    <2>2. rxq'[s] = rxq[s]
        BY <2>1
    <2>3. /\ at[r] = Elements(rxq[s]) /\ at'[r] = Elements(rxq'[s])
          /\ line[r] = rxq[s] /\ line'[r] = rxq'[s]
        BY <2>1, AtFacts, AtFactsNext, LineFacts, LineFactsNext
    <2> QED BY <2>2, <2>3
<1>3. CASE \E t \in Thread : r = <<"hand", t>>
    <2>1. PICK t \in Thread : r = <<"hand", t>>
        BY <1>3
    <2>2. hand'[t] = hand[t]
        BY <2>1
    <2>3. /\ at[r] = {hand[t]} \ {None} /\ at'[r] = {hand'[t]} \ {None}
          /\ line[r] = <<>> /\ line'[r] = <<>>
        BY <2>1, AtFacts, AtFactsNext, LineFacts, LineFactsNext
    <2> QED BY <2>2, <2>3
<1>4. CASE r = <<"rc", "queue">>
    BY <1>4, AtFacts, AtFactsNext, LineFacts, LineFactsNext
<1> QED BY <1>1, <1>2, <1>3, <1>4, Places DEF Way

-----------------------------------------------------------------------------
(* What keeps the order                                                      *)

\* The buffers of G leave the system, b may move, and nothing else changes.
Rest(G, b) ==
    /\ \A x \in Buffer \ (G \cup {b}) :
        msg'[x] = msg[x] /\ \A r \in Way : x \in at'[r] <=> x \in at[r]
    /\ \A x, y \in Buffer \ (G \cup {b}) : \A r \in Way : Before(line[r], y, x) => Before(line'[r], y, x)
    /\ \A x \in G : ahead'[x] = {} /\ \A r \in Way : x \notin at'[r]
    /\ \A x \in Buffer \ G : ahead'[x] = ahead[x] \ G

\* b was the first at p, and is the last at q.
Passes(b, p, q) ==
    /\ p \in Way /\ q \in Way /\ b \in at[p] /\ b \in at'[q]
    /\ \A r \in Way : (b \in at[r] => r = p) /\ (b \in at'[r] => r = q)
    /\ \A y : ~Before(line[p], y, b)
    /\ \A y \in at'[q] \ {b} : Before(line'[q], y, b)

\* It comes one stage further.
Proceeds(b, p, q) ==
    /\ msg'[b].kind = msg[b].kind /\ OnWay(msg'[b], q)
    /\ StepUp(msg[b].kind, Stage(msg[b], p), Stage(msg'[b], q))

LEMMA StageOf ==
    ASSUME OnWays, NEW p \in Way, NEW b \in at[p]
    PROVE  OnWay(msg[b], p) /\ Stage(msg[b], p) \in 1 .. 10
BY Stages DEF OnWays

LEMMA AtTyped == ASSUME QueuesTyped PROVE \A p \in Place : at[p] \subseteq Buffer
<1> SUFFICES ASSUME NEW p \in Place PROVE at[p] \subseteq Buffer
    OBVIOUS
<1>1. CASE \E s \in TxService : p = <<"tx", s>>
    BY <1>1, AtFacts, ElementsTyped DEF QueuesTyped
<1>2. CASE \E s \in RxService : p = <<"rx", s>>
    BY <1>2, AtFacts, ElementsTyped DEF QueuesTyped
<1>3. CASE \E t \in Thread : p = <<"hand", t>>
    BY <1>3, AtFacts DEF QueuesTyped
<1>4. CASE p = <<"rc", "queue">>
    BY <1>4, AtFacts, ElementsTyped DEF QueuesTyped
<1>5. CASE p = <<"free", "list">>
    BY <1>5, AtFacts DEF QueuesTyped
<1> QED BY <1>1, <1>2, <1>3, <1>4, <1>5, Places

LEMMA AtTypedNext == ASSUME QueuesTyped' PROVE \A p \in Place : at'[p] \subseteq Buffer
<1>1. (QueuesTyped => \A p \in Place : at[p] \subseteq Buffer)'
    BY AtTyped, PTL
<1> QED BY <1>1

\* Messages in one queue are at one stage.
LEMMA QueueStage ==
    ASSUME NEW p \in Way, NEW c, NEW b, Before(line[p], c, b), NEW m, NEW n
    PROVE  Stage(m, p) = Stage(n, p)
<1>1. CASE \E t \in Thread : p = <<"hand", t>>
    <2>1. line[p] = <<>>
        BY <1>1, LineFacts
    <2> QED BY <2>1 DEF Before
<1>2. CASE p[1] # "hand"
    <2>1. p[1] \in {"tx", "rx", "rc"}
        BY <1>2, Places DEF Way
    <2> QED BY <2>1 DEF Stage
<1> QED BY <1>1, <1>2, Places DEF Way

\* A step that does no more keeps the messages of each kind in order.
LEMMA OrderStep ==
    ASSUME Home, Home', OnWays, Ordered, NEW G \in SUBSET Buffer, NEW b \in Buffer, Rest(G, b),
           b \in G \/ \E p, q \in Way : Passes(b, p, q) /\ Proceeds(b, p, q)
    PROVE  OnWays' /\ Ordered'
<1>1. \A p \in Way : at[p] \subseteq Buffer /\ at'[p] \subseteq Buffer
    BY AtTyped, AtTypedNext DEF Home, Way
<1>2. OnWays'
    <2> SUFFICES ASSUME NEW r \in Way, NEW x \in at'[r] PROVE OnWay(msg'[x], r)
        BY DEF OnWays
    <2>1. x \in Buffer \ G
        BY <1>1 DEF Rest
    <2>2. CASE x = b
        BY <2>1, <2>2 DEF Passes, Proceeds
    <2>3. CASE x # b
        BY <2>1, <2>3 DEF Rest, OnWays
    <2> QED BY <2>2, <2>3
<1>3. ASSUME NEW x \in Buffer, NEW y \in ahead'[x]
      PROVE  /\ y # x /\ msg'[y].kind = msg'[x].kind
             /\ \E p, q \in Way :
                 /\ x \in at'[p] /\ y \in at'[q]
                 /\ Stage(msg'[x], p) < Stage(msg'[y], q) \/ (p = q /\ Before(line'[p], y, x))
    <2>1. x \notin G /\ y \in ahead[x] /\ y \notin G
        BY DEF Rest
    <2>2. y # x /\ msg[y].kind = msg[x].kind /\ Further(y, x)
        BY <2>1 DEF Ordered
    <2>3. PICK pp \in Way, qq \in Way :
            /\ x \in at[pp] /\ y \in at[qq]
            /\ Stage(msg[x], pp) < Stage(msg[y], qq) \/ (pp = qq /\ Before(line[pp], y, x))
        BY <2>2 DEF Further
    <2>4. y \in Buffer
        BY <1>1, <2>3
    <2>5. /\ OnWay(msg[x], pp) /\ Stage(msg[x], pp) \in 1 .. 10
          /\ OnWay(msg[y], qq) /\ Stage(msg[y], qq) \in 1 .. 10
        BY <2>3, StageOf
    <2>6. CASE x # b /\ y # b
        <3>1. /\ msg'[x] = msg[x] /\ msg'[y] = msg[y] /\ x \in at'[pp] /\ y \in at'[qq]
              /\ Before(line[pp], y, x) => Before(line'[pp], y, x)
            BY <2>1, <2>3, <2>4, <2>6 DEF Rest
        <3> QED BY <2>2, <2>3, <3>1
    <2>7. CASE x = b
        <3>1. PICK p \in Way, q \in Way : Passes(b, p, q) /\ Proceeds(b, p, q)
            BY <2>1, <2>7
        <3>2. pp = p /\ x \in at'[q] /\ ~Before(line[p], y, b)
            BY <2>3, <2>7, <3>1 DEF Passes
        <3>3. msg'[y] = msg[y] /\ y \in at'[qq]
            BY <2>1, <2>2, <2>3, <2>4, <2>7 DEF Rest
        <3>4. /\ msg'[x].kind = msg[x].kind /\ OnWay(msg'[x], q)
              /\ StepUp(msg[x].kind, Stage(msg[x], p), Stage(msg'[x], q))
            BY <2>7, <3>1 DEF Proceeds
        <3>5. Stage(msg[x], p) < Stage(msg[y], qq)
            BY <2>3, <2>7, <3>2
        <3>6. Stage(msg'[x], q) <= Stage(msg[y], qq)
            BY <2>2, <2>5, <3>2, <3>4, <3>5, SameStage
        <3>7. CASE Stage(msg'[x], q) = Stage(msg[y], qq)
            <4>1. q = qq
                BY <2>2, <2>5, <3>4, <3>7, SameStage
            <4>2. Before(line'[q], y, x)
                BY <2>2, <2>7, <3>1, <3>3, <4>1 DEF Passes
            <4> QED BY <2>2, <3>2, <3>3, <3>4, <4>1, <4>2
        <3>8. Stage(msg'[x], q) \in 1 .. 10
            BY <3>4, Stages
        <3>9. CASE Stage(msg'[x], q) < Stage(msg[y], qq)
            BY <2>2, <3>2, <3>3, <3>4, <3>9
        <3> QED BY <2>5, <3>6, <3>7, <3>8, <3>9
    <2>8. CASE y = b
        <3>1. PICK p \in Way, q \in Way : Passes(b, p, q) /\ Proceeds(b, p, q)
            BY <2>1, <2>8
        <3>2. qq = p /\ y \in at'[q]
            BY <2>3, <2>8, <3>1 DEF Passes
        <3>3. msg'[x] = msg[x] /\ x \in at'[pp]
            BY <2>1, <2>2, <2>3, <2>8 DEF Rest
        <3>4. /\ msg'[y].kind = msg[y].kind /\ OnWay(msg'[y], q)
              /\ StepUp(msg[y].kind, Stage(msg[y], p), Stage(msg'[y], q))
            BY <2>8, <3>1 DEF Proceeds
        <3>5. Stage(msg[x], pp) <= Stage(msg[y], p)
            <4>1. CASE pp = qq /\ Before(line[pp], y, x)
                <5>1. Stage(msg[x], pp) = Stage(msg[y], pp)
                    BY <4>1, QueueStage
                <5> QED BY <2>5, <3>2, <4>1, <5>1
            <4> QED BY <2>3, <2>5, <3>2, <4>1
        <3>6. Stage(msg[x], pp) < Stage(msg'[y], q)
            BY <2>5, <3>2, <3>4, <3>5 DEF StepUp
        <3> QED BY <2>2, <3>2, <3>3, <3>4, <3>6
    <2> QED BY <2>6, <2>7, <2>8
<1>4. Ordered'
    BY <1>3 DEF Ordered, Further
<1> QED BY <1>2, <1>4

\* A message leaves a place for another one.
LEMMA Passed ==
    ASSUME Home, Home', NEW b \in Buffer, NEW p \in Way, NEW q \in Way, p # q,
           b \in at[p], at'[p] = at[p] \ {b}, at'[q] = at[q] \cup {b}, Still({p, q}),
           \/ line'[p] = line[p] /\ line[p] = <<>>
           \/ /\ line[p] # <<>> /\ line[p] \in Seq(Buffer) /\ Distinct(line[p])
              /\ b = Head(line[p]) /\ line'[p] = Tail(line[p]),
           \/ line'[q] = line[q] /\ at[q] = {}
           \/ /\ line[q] \in Seq(Buffer) /\ at[q] = Elements(line[q])
              /\ line'[q] = Append(line[q], b),
           \A x \in Buffer : x # b => msg'[x] = msg[x],
           ahead' = ahead
    PROVE  Rest({}, b) /\ Passes(b, p, q)
<1>1. /\ \A y : ~Before(line[p], y, b)
      /\ \A c, d : c # b /\ Before(line[p], c, d) => Before(line'[p], c, d)
    <2>1. CASE line'[p] = line[p] /\ line[p] = <<>>
        BY <2>1 DEF Before
    <2>2. CASE line[p] # <<>> /\ line[p] \in Seq(Buffer) /\ Distinct(line[p])
               /\ b = Head(line[p]) /\ line'[p] = Tail(line[p])
        <3>1. \A y : ~Before(line[p], y, Head(line[p]))
            BY <2>2, BeforeTail
        <3>2. \A c, d : c # Head(line[p]) /\ Before(line[p], c, d) => Before(Tail(line[p]), c, d)
            BY <2>2, BeforeTail
        <3> QED BY <2>2, <3>1, <3>2
    <2> QED BY <2>1, <2>2
<1>2. /\ \A y \in at[q] : Before(line'[q], y, b)
      /\ \A c, d : Before(line[q], c, d) => Before(line'[q], c, d)
    <2>1. CASE line'[q] = line[q] /\ at[q] = {}
        BY <2>1
    <2>2. CASE line[q] \in Seq(Buffer) /\ at[q] = Elements(line[q]) /\ line'[q] = Append(line[q], b)
        BY <2>2, BeforeAppend
    <2> QED BY <2>1, <2>2
<1>3. \A r \in Way : r \in Place
    BY DEF Way
<1>4. \A r \in Way : b \in at[r] => r = p
    BY <1>3 DEF Home, Apart
<1>5. b \in at'[q] /\ \A r \in Way : b \in at'[r] => r = q
    BY <1>3 DEF Home, Apart
<1>6. \A x \in Buffer : x # b => \A r \in Way : x \in at'[r] <=> x \in at[r]
    BY DEF Still
<1>7. \A x, y \in Buffer : y # b => \A r \in Way : Before(line[r], y, x) => Before(line'[r], y, x)
    BY <1>1, <1>2 DEF Still
<1> QED BY <1>1, <1>2, <1>4, <1>5, <1>6, <1>7 DEF Rest, Passes

\* A message in a hand leaves the system.
LEMMA Left ==
    ASSUME Home, Home', Marked, NEW t \in Thread, NEW b \in Buffer, b = hand[t],
           hand' = [hand EXCEPT ![t] = None], UNCHANGED <<txq, rxq, rcq>>, Forgotten(b)
    PROVE  Rest({b}, b)
<1> DEFINE p == <<"hand", t>>
<1>1. b # None /\ hand \in [Thread -> Buffer \cup {None}]
    BY ScheduleAssumption DEF ScheduleAssumption, Home, QueuesTyped
<1>2. hand'[t] = None /\ \A u \in Thread : u # t => hand'[u] = hand[u]
    BY <1>1
<1>3. /\ p \in Way /\ at[p] = {b} /\ at'[p] = {} /\ line[p] = <<>> /\ line'[p] = <<>>
    BY <1>1, <1>2, AtFacts, AtFactsNext, LineFacts, LineFactsNext
<1>4. Still({p})
    BY <1>2, LineFrame
<1> HIDE DEF p
<1>5. \A r \in Way : r \in Place /\ line'[r] = line[r] /\ at'[r] = at[r] \ {b}
    BY <1>3, <1>4 DEF Still, Home, Apart, Way
<1>6. /\ \A x \in Buffer : x # b => msg'[x] = msg[x] /\ ahead'[x] = ahead[x] \ {b}
      /\ ahead'[b] = {}
    BY DEF Forgotten, Marked
<1> QED BY <1>5, <1>6 DEF Rest

\* A message that leaves was in nobody's way.
LEMMA LeftOrder ==
    ASSUME Home, Home', Marked, OnWays, Ordered, NEW t \in Thread, NEW b \in Buffer, b = hand[t],
           hand' = [hand EXCEPT ![t] = None], UNCHANGED <<txq, rxq, rcq>>, Forgotten(b)
    PROVE  OnWays' /\ Ordered'
BY Left, OrderStep

-----------------------------------------------------------------------------
(* The ways of the messages                                                  *)

\* From a transmit queue to the scheduler.
LEMMA PolledProceeds ==
    ASSUME NEW m, NEW s, OnWay(m, <<"tx", s>>)
    PROVE  /\ OnWay(m, <<"hand", "scheduler">>)
           /\ StepUp(m.kind, Stage(m, <<"tx", s>>), Stage(m, <<"hand", "scheduler">>))
<1>1. s = m.src
    BY DEF OnWay, Coming, Going
<1>2. OnWay(m, <<"hand", "scheduler">>)
    BY DEF OnWay, Coming, Going
<1>3. /\ Stage(m, <<"tx", s>>) = IF s \in Front THEN 1 ELSE 7
      /\ Stage(m, <<"hand", "scheduler">>) = IF m.src \in Front THEN 2 ELSE 8
    BY DEF Stage
<1>4. CASE s \in Front
    BY <1>1, <1>2, <1>3, <1>4 DEF StepUp
<1>5. CASE s \notin Front
    BY <1>1, <1>2, <1>3, <1>5 DEF StepUp
<1> QED BY <1>2, <1>4, <1>5

\* What schedule_table says of the first and the second half of a way.
LEMMA TableWays ==
    /\ \A e \in Table : e[1] \notin Front => e[3] = "response"
    /\ \A e \in Table, kind \in Packet : e[1] = "request" /\ e[2] = PacketType[kind] => e[3] = Via(kind)
    /\ \A e \in Table, kind \in {"mapTick", "ptpTick"} : e[1] = "timer" /\ e[2] = kind => e[3] = Via(kind)
<1>1. \A e \in Table : e[1] \notin Front => e[3] = "response"
    BY DEF Table, Front
<1>2. ASSUME NEW kind \in Packet
      PROVE  \A e \in Table : e[1] = "request" /\ e[2] = PacketType[kind] => e[3] = Via(kind)
    <2>1. kind \in {"nmac", "ts", "regroup", "arp", "rc", "be", "unmapped",
                    "sync", "delayReq", "delayResp"}
        BY ScheduleAssumption DEF ScheduleAssumption
    <2>2. /\ kind = "nmac" => PacketType[kind] = "nmac"
          /\ kind \in {"ts", "regroup"} => PacketType[kind] = "regroup" /\ Via(kind) = "regroup"
          /\ kind = "arp" => PacketType[kind] = "arp" /\ Via(kind) = "arp"
          /\ kind \in {"rc", "be", "unmapped"} => PacketType[kind] = "forward" /\ Via(kind) = "map"
          /\ kind \in {"sync", "delayReq", "delayResp"} => PacketType[kind] = "ptp" /\ Via(kind) = "ptp"
        BY DEF PacketType, Via
    <2>3. \A e \in Table : e[1] = "request" =>
            /\ e[2] \in {"ptp", "regroup", "forward", "arp"}
            /\ e[2] \in {"ptp", "regroup", "arp"} => e[3] = e[2]
            /\ e[2] = "forward" => e[3] = "map"
        BY DEF Table
    <2> QED BY <2>1, <2>2, <2>3
<1>3. \A e \in Table, kind \in {"mapTick", "ptpTick"} :
        e[1] = "timer" /\ e[2] = kind => e[3] = Via(kind)
    BY DEF Table, Via
<1> QED BY <1>1, <1>2, <1>3

\* From the scheduler to the receive queue that the table names.
LEMMA DispatchProceeds ==
    ASSUME NEW m, OnWay(m, <<"hand", "scheduler">>), NEW e \in Table, m.src = e[1], m.type = e[2]
    PROVE  /\ OnWay(m, <<"rx", e[3]>>)
           /\ StepUp(m.kind, Stage(m, <<"hand", "scheduler">>), Stage(m, <<"rx", e[3]>>))
<1>1. CASE Coming(m, <<"hand", "scheduler">>)
    <2>1. m.src = Origin(m.kind) /\ m.src \in Front /\ m.type = FirstType(m.kind)
        BY <1>1 DEF Coming
    <2>4. e[3] = Via(m.kind)
        <3>1. CASE m.kind \in Packet
            BY <2>1, <3>1, TableWays DEF Origin, FirstType
        <3>2. CASE m.kind \notin Packet
            <4>1. m.src = Origin(m.kind) /\ m.type = m.kind
                BY <2>1, <3>2 DEF FirstType
            <4>2. m.kind \in {"mapTick", "ptpTick"}
                BY <2>1, <3>2 DEF Origin, Front
            <4>3. Origin(m.kind) = "timer"
                BY <3>2, <4>2 DEF Origin
            <4>4. e[1] = "timer" /\ e[2] = m.kind
                BY <4>1, <4>3
            <4> QED BY <4>2, <4>4, TableWays
        <3> QED BY <3>1, <3>2
    <2>5. OnWay(m, <<"rx", e[3]>>)
        BY <2>1, <2>4 DEF OnWay, Coming
    <2>6. e[3] # "response"
        BY <2>4 DEF Via
    <2> QED BY <2>1, <2>5, <2>6 DEF Stage, StepUp
<1>2. CASE Going(m, <<"hand", "scheduler">>)
    <2>1. m.src = Via(m.kind) /\ m.src \notin Front
        BY <1>2 DEF Going
    <2>2. e[3] = "response"
        BY <2>1, TableWays
    <2>3. OnWay(m, <<"rx", e[3]>>)
        BY <2>1, <2>2 DEF OnWay, Going
    <2> QED BY <2>1, <2>2, <2>3 DEF Stage, StepUp
<1> QED BY <1>1, <1>2 DEF OnWay

\* From a receive queue to its service.
LEMMA ReadProceeds ==
    ASSUME NEW m, NEW s \in RxService, OnWay(m, <<"rx", s>>)
    PROVE  OnWay(m, <<"hand", s>>) /\ StepUp(m.kind, Stage(m, <<"rx", s>>), Stage(m, <<"hand", s>>))
<1>1. s # "scheduler"
    BY Services
<1>2. CASE Coming(m, <<"rx", s>>)
    <2>1. s = Via(m.kind) /\ m.src \in Front
        BY <1>2 DEF Coming
    <2>2. s # "response"
        BY <2>1 DEF Via
    <2>3. OnWay(m, <<"hand", s>>)
        BY <1>2, <2>1 DEF OnWay, Coming
    <2> QED BY <1>1, <2>1, <2>2, <2>3 DEF Stage, StepUp
<1>3. CASE Going(m, <<"rx", s>>)
    <2>1. s = "response" /\ m.src \notin Front
        BY <1>3 DEF Going
    <2>2. OnWay(m, <<"hand", s>>)
        BY <1>3, <2>1 DEF OnWay, Going
    <2> QED BY <2>1, <2>2 DEF Stage, StepUp
<1> QED BY <1>2, <1>3 DEF OnWay

\* From the service to its transmit queue.
LEMMA WriteProceeds ==
    ASSUME NEW m, NEW n, NEW s \in {"map", "ptp", "regroup", "arp"}, OnWay(m, <<"hand", s>>),
           s = "map" => m.src = "map" \/ m.kind # "rc", n.src = s, n.kind = m.kind
    PROVE  OnWay(n, <<"tx", s>>) /\ StepUp(m.kind, Stage(m, <<"hand", s>>), Stage(n, <<"tx", s>>))
<1>1. s \notin Front /\ s # "scheduler" /\ s # "response"
    BY DEF Front
<1>2. Stage(n, <<"tx", s>>) = 7
    BY <1>1 DEF Stage
<1>3. CASE Coming(m, <<"hand", s>>)
    <2>1. s = Via(m.kind) /\ m.src \in Front
        BY <1>1, <1>3 DEF Coming
    <2>2. m.kind # "rc"
        <3>1. "map" \notin Front /\ Via("rc") = "map"
            BY DEF Front, Via
        <3> QED BY <2>1, <3>1
    <2>3. OnWay(n, <<"tx", s>>)
        BY <1>1, <2>1 DEF OnWay, Going
    <2>4. Stage(m, <<"hand", s>>) = 4
        BY <1>1, <2>1 DEF Stage
    <2> QED BY <1>2, <2>2, <2>3, <2>4 DEF StepUp
<1>4. CASE Going(m, <<"hand", s>>)
    <2>1. s = "map" /\ m.kind = "rc" /\ m.src \notin Front
        BY <1>1, <1>4 DEF Going
    <2>2. OnWay(n, <<"tx", s>>)
        BY <1>1, <2>1 DEF OnWay, Going, Via
    <2>3. Stage(m, <<"hand", s>>) = 6
        BY <1>1, <2>1 DEF Stage
    <2> QED BY <1>2, <2>2, <2>3 DEF StepUp
<1> QED BY <1>3, <1>4 DEF OnWay

\* Into the RC queue, and out of it.
LEMMA RcProceeds ==
    /\ \A m, n : /\ OnWay(m, <<"hand", "map">>) /\ m.kind = "rc" /\ m.src = "request"
                 /\ n.src = "map" /\ n.kind = "rc"
            => /\ OnWay(n, <<"rc", "queue">>)
               /\ StepUp(m.kind, Stage(m, <<"hand", "map">>), Stage(n, <<"rc", "queue">>))
    /\ \A m : OnWay(m, <<"rc", "queue">>)
            => /\ OnWay(m, <<"hand", "map">>)
               /\ StepUp(m.kind, Stage(m, <<"rc", "queue">>), Stage(m, <<"hand", "map">>))
<1>1. Via("rc") = "map" /\ "map" \notin Front /\ "request" \in Front
    BY DEF Via, Front
<1>2. ASSUME NEW m, NEW n, OnWay(m, <<"hand", "map">>), m.kind = "rc", m.src = "request",
             n.src = "map", n.kind = "rc"
      PROVE  /\ OnWay(n, <<"rc", "queue">>)
             /\ StepUp(m.kind, Stage(m, <<"hand", "map">>), Stage(n, <<"rc", "queue">>))
    BY <1>1, <1>2 DEF OnWay, Going, Stage, StepUp
<1>3. ASSUME NEW m, OnWay(m, <<"rc", "queue">>)
      PROVE  /\ OnWay(m, <<"hand", "map">>)
             /\ StepUp(m.kind, Stage(m, <<"rc", "queue">>), Stage(m, <<"hand", "map">>))
    <2>1. Going(m, <<"rc", "queue">>) /\ m.kind = "rc" /\ m.src = "map"
        BY <1>1, <1>3 DEF OnWay, Going, Coming
    <2>2. OnWay(m, <<"hand", "map">>)
        BY <1>1, <2>1 DEF OnWay, Going
    <2> QED BY <1>1, <2>1, <2>2 DEF Stage, StepUp
<1> QED BY <1>2, <1>3

\* No message of a kind is behind the place where new ones of that kind come in.
LEMMA EntryStage ==
    ASSUME NEW n, NEW q, OnWay(n, q)
    PROVE  Stage(n, q) >= 1 /\ (n.kind \in {"config", "offset"} => Stage(n, q) >= 7)
<1>1. Stage(n, q) \in 1 .. 10
    BY Stages
<1>2. ASSUME n.kind \in {"config", "offset"} PROVE Stage(n, q) >= 7
    <2>1. n.kind \notin Packet
        BY <1>2, ScheduleAssumption DEF ScheduleAssumption
    <2>2. Origin(n.kind) \notin Front
        BY <1>2, <2>1 DEF Origin, Front
    <2>3. Going(n, q)
        BY <2>2 DEF OnWay, Coming
    <2>4. n.src = Via(n.kind) /\ n.src \notin Front /\ n.kind # "rc"
        BY <1>2, <2>3 DEF Going
    <2>5. q \in {<<"tx", n.src>>, <<"hand", "scheduler">>, <<"rx", "response">>, <<"hand", "response">>}
        BY <2>3, <2>4 DEF Going
    <2> QED BY <2>4, <2>5 DEF Stage
<1> QED BY <1>1, <1>2

-----------------------------------------------------------------------------
(* Every step keeps the order                                                *)

LEMMA InSystemWay ==
    ASSUME QueuesTyped
    PROVE  \A b : b \in InSystem <=> \E p \in Way : b \in at[p]
<1>1. ASSUME NEW b \in InSystem PROVE \E p \in Way : b \in at[p]
    <2>1. \/ \E s \in TxService : b \in Elements(txq[s])
          \/ \E s \in RxService : b \in Elements(rxq[s])
          \/ b \in Elements(rcq)
          \/ \E t \in Thread : b \in {hand[t]} \ {None}
        BY DEF InSystem
    <2> QED BY <2>1, AtFacts, LineFacts
<1>2. ASSUME NEW b, NEW p \in Way, b \in at[p] PROVE b \in InSystem
    <2>1. CASE \E s \in TxService : p = <<"tx", s>>
        BY <1>2, <2>1, AtFacts DEF InSystem
    <2>2. CASE \E s \in RxService : p = <<"rx", s>>
        BY <1>2, <2>2, AtFacts DEF InSystem
    <2>3. CASE \E t \in Thread : p = <<"hand", t>>
        BY <1>2, <2>3, AtFacts DEF InSystem
    <2>4. CASE p = <<"rc", "queue">>
        BY <1>2, <2>4, AtFacts DEF InSystem
    <2> QED BY <2>1, <2>2, <2>3, <2>4, Places DEF Way
<1> QED BY <1>1, <1>2

\* A new message comes in behind all of its kind.
LEMMA WriteNewOrder ==
    ASSUME Inv, Home', OnWays, Ordered, NEW s \in TxService, NEW c \in Buffer, NEW type, NEW kind,
           WriteNew(s, c, type, kind), UNCHANGED <<rxq, rcq, hand>>,
           OnWay([src |-> s, type |-> type, kind |-> kind], <<"tx", s>>),
           s \in Front \/ kind \in {"config", "offset"}
    PROVE  OnWays' /\ Ordered'
<1> DEFINE m == [src |-> s, type |-> type, kind |-> kind]
           p == <<"tx", s>>
<1>1. /\ Home /\ QueuesTyped /\ txq \in [TxService -> Seq(Buffer)] /\ Marked /\ c \in free
      /\ txq' = [txq EXCEPT ![s] = Append(@, c)] /\ msg' = [msg EXCEPT ![c] = m]
      /\ ahead' = [ahead EXCEPT ![c] = {d \in InSystem : msg[d].kind = kind}]
    BY TypeParts DEF Inv, Home, QueuesTyped, WriteNew
<1>2. /\ p \in Way /\ line[p] = txq[s] /\ at[p] = Elements(txq[s])
      /\ line'[p] = Append(txq[s], c) /\ at'[p] = Elements(txq[s]) \cup {c}
      /\ txq[s] \in Seq(Buffer)
    <2>1. p \in Way /\ line[p] = txq[s] /\ line'[p] = txq'[s]
        BY LineFacts, LineFactsNext
    <2>2. at[p] = Elements(txq[s]) /\ at'[p] = Elements(txq'[s])
        BY AtFacts, AtFactsNext
    <2>3. txq[s] \in Seq(Buffer) /\ txq'[s] = Append(txq[s], c)
        BY <1>1
    <2>4. Elements(Append(txq[s], c)) = Elements(txq[s]) \cup {c}
        BY <2>3, AppendFacts
    <2> HIDE DEF p
    <2> QED BY <2>1, <2>2, <2>3, <2>4
<1>3. Still({p})
    <2>1. \A r \in TxService : r # s => txq'[r] = txq[r]
        BY <1>1
    <2>2. \A r \in TxService : txq'[r] = txq[r] \/ <<"tx", r>> \in {p}
        BY <2>1
    <2>3. rxq' = rxq /\ hand' = hand /\ rcq' = rcq
        OBVIOUS
    <2> HIDE DEF p
    <2> QED BY <2>2, <2>3, LineFrame
<1>4. msg'[c] = m /\ OnWay(m, p) /\ m.kind = kind
    BY <1>1 DEF Marked
<1>5. /\ \A x \in Buffer : x # c => msg'[x] = msg[x] /\ ahead'[x] = ahead[x]
      /\ ahead'[c] = {d \in InSystem : msg[d].kind = kind}
    BY <1>1 DEF Marked
<1>6. Stage(m, p) = IF s \in Front THEN 1 ELSE 7
    BY DEF Stage
<1> HIDE DEF m, p
<1>7. \A r \in Way : c \notin at[r]
    <2>1. c \in at[<<"free", "list">>] /\ <<"free", "list">> \in Place
        BY <1>1, AtFacts
    <2> QED BY <1>1, <2>1 DEF Home, Apart, Way
<1>8. \A r \in Way : at[r] \subseteq Buffer /\ at'[r] \subseteq at[r] \cup {c} /\ at[r] \subseteq at'[r]
    BY <1>1, <1>2, <1>3, AtTyped DEF Still, Way
<1>9. \A r \in Way : c \in at'[r] => r = p
    BY <1>3, <1>7 DEF Still
<1>10. \A r \in Way : \A x, y : Before(line[r], y, x) => Before(line'[r], y, x)
    <2>1. \A x, y : Before(txq[s], y, x) => Before(Append(txq[s], c), y, x)
        BY <1>2, BeforeAppend
    <2> QED BY <1>2, <1>3, <2>1 DEF Still
<1>11. OnWays'
    <2> SUFFICES ASSUME NEW r \in Way, NEW x \in at'[r] PROVE OnWay(msg'[x], r)
        BY DEF OnWays
    <2>1. CASE x = c
        BY <1>4, <1>9, <2>1
    <2>2. CASE x # c
        <3>1. x \in at[r] /\ x \in Buffer
            BY <1>8, <2>2
        <3> QED BY <1>5, <2>2, <3>1 DEF OnWays
    <2> QED BY <2>1, <2>2
<1>12. ASSUME NEW x \in Buffer, NEW y \in ahead'[x]
       PROVE  /\ y # x /\ msg'[y].kind = msg'[x].kind
              /\ \E pp, qq \in Way :
                  /\ x \in at'[pp] /\ y \in at'[qq]
                  /\ Stage(msg'[x], pp) < Stage(msg'[y], qq) \/ (pp = qq /\ Before(line'[pp], y, x))
    <2>1. CASE x # c
        <3>1. y \in ahead[x]
            BY <1>5, <2>1
        <3>2. y # x /\ msg[y].kind = msg[x].kind /\ Further(y, x)
            BY <3>1 DEF Ordered
        <3>3. PICK pp \in Way, qq \in Way :
                /\ x \in at[pp] /\ y \in at[qq]
                /\ Stage(msg[x], pp) < Stage(msg[y], qq) \/ (pp = qq /\ Before(line[pp], y, x))
            BY <3>2 DEF Further
        <3>4. y # c /\ y \in Buffer
            BY <1>7, <1>8, <3>3
        <3>5. msg'[x] = msg[x] /\ msg'[y] = msg[y] /\ x \in at'[pp] /\ y \in at'[qq]
            BY <1>5, <1>8, <2>1, <3>3, <3>4
        <3> QED BY <1>10, <3>2, <3>3, <3>5
    <2>2. CASE x = c
        <3>1. y \in InSystem /\ msg[y].kind = kind
            BY <1>5, <2>2
        <3>2. PICK qq \in Way : y \in at[qq]
            BY <1>1, <3>1, InSystemWay
        <3>3. y # c /\ y \in Buffer /\ y \in at'[qq] /\ c \in at'[p]
            BY <1>2, <1>7, <1>8, <3>2
        <3>4. msg'[y] = msg[y]
            BY <1>5, <3>3
        <3>5. OnWay(msg[y], qq) /\ Stage(msg[y], qq) \in 1 .. 10
            BY <3>2, StageOf
        <3>6. Stage(m, p) <= Stage(msg[y], qq)
            BY <1>6, <3>1, <3>5, EntryStage
        <3>7. CASE Stage(m, p) = Stage(msg[y], qq)
            <4>1. qq = p
                BY <1>4, <3>1, <3>5, <3>7, SameStage
            <4>2. Before(line'[p], y, c)
                BY <1>2, <3>2, <4>1, BeforeAppend
            <4> QED BY <1>2, <1>4, <2>2, <3>1, <3>3, <3>4, <4>1, <4>2
        <3>8. CASE Stage(m, p) < Stage(msg[y], qq)
            BY <1>2, <1>4, <2>2, <3>1, <3>3, <3>4, <3>8
        <3> QED BY <1>6, <3>5, <3>6, <3>7, <3>8
    <2> QED BY <2>1, <2>2
<1> QED BY <1>11, <1>12 DEF Ordered, Further

\* A step that moves nothing.
LEMMA StillOrder ==
    ASSUME OnWays, Ordered, Still({}), UNCHANGED <<msg, ahead>>
    PROVE  OnWays' /\ Ordered'
<1>1. \A r \in Way : at'[r] = at[r] /\ line'[r] = line[r]
    BY DEF Still
<1>2. OnWays'
    <2> SUFFICES ASSUME NEW r \in Way, NEW x \in at'[r] PROVE OnWay(msg'[x], r)
        BY DEF OnWays
    <2> QED BY <1>1 DEF OnWays
<1>3. ASSUME NEW x \in Buffer, NEW y \in ahead'[x]
      PROVE  /\ y # x /\ msg'[y].kind = msg'[x].kind
             /\ \E p, q \in Way :
                 /\ x \in at'[p] /\ y \in at'[q]
                 /\ Stage(msg'[x], p) < Stage(msg'[y], q) \/ (p = q /\ Before(line'[p], y, x))
    <2>1. y \in ahead[x]
        OBVIOUS
    <2>2. y # x /\ msg[y].kind = msg[x].kind /\ Further(y, x)
        BY <2>1 DEF Ordered
    <2>3. PICK p \in Way, q \in Way :
            /\ x \in at[p] /\ y \in at[q]
            /\ Stage(msg[x], p) < Stage(msg[y], q) \/ (p = q /\ Before(line[p], y, x))
        BY <2>2 DEF Further
    <2>4. /\ x \in at'[p] /\ y \in at'[q]
          /\ Stage(msg'[x], p) < Stage(msg'[y], q) \/ (p = q /\ Before(line'[p], y, x))
        BY <1>1, <2>3
    <2> QED BY <2>2, <2>4
<1>4. Ordered'
    BY <1>3 DEF Ordered, Further
<1> QED BY <1>2, <1>4

\* The scheduler takes the first message of a transmit queue.
LEMMA PollOrder ==
    ASSUME Inv, Home', OnWays, Ordered, Poll
    PROVE  OnWays' /\ Ordered'
<1> DEFINE s == TxOrder[polled]
           b == Head(txq[s])
           p == <<"tx", s>>
           q == <<"hand", "scheduler">>
<1>1. /\ s \in TxService /\ "scheduler" \in Thread /\ Home /\ hand["scheduler"] = None
      /\ UNCHANGED <<msg, rxq, rcq, ahead>>
    BY Services DEF Poll, Inv, TypeOK
<1>2. CASE UNCHANGED <<txq, hand>>
    <2>1. Still({})
        BY <1>1, <1>2, LineFrame
    <2> QED BY <1>1, <2>1, StillOrder
<1>3. CASE txq[s] # <<>> /\ hand' = [hand EXCEPT !["scheduler"] = b] /\ txq' = [txq EXCEPT ![s] = Tail(@)]
    <2>1. /\ txq[s] \in Seq(Buffer) /\ Distinct(txq[s]) /\ txq \in [TxService -> Seq(Buffer)]
          /\ hand \in [Thread -> Buffer \cup {None}]
        BY <1>1 DEF Home, QueuesTyped, QueuesDistinct
    <2>2. b \in Buffer /\ b \in Elements(txq[s]) /\ Elements(Tail(txq[s])) = Elements(txq[s]) \ {b}
        BY <1>3, <2>1, TailFacts
    <2>3. b # None
        BY <2>2, ScheduleAssumption DEF ScheduleAssumption
    <2>4. /\ txq'[s] = Tail(txq[s]) /\ \A r \in TxService : r # s => txq'[r] = txq[r]
          /\ hand'["scheduler"] = b /\ \A u \in Thread : u # "scheduler" => hand'[u] = hand[u]
        BY <1>1, <1>3, <2>1
    <2> HIDE DEF b, s
    <2>5. /\ p \in Way /\ q \in Way /\ p # q /\ at[p] = Elements(txq[s]) /\ at[q] = {}
          /\ at'[p] = at[p] \ {b} /\ at'[q] = at[q] \cup {b}
          /\ line[p] = txq[s] /\ line'[p] = Tail(txq[s]) /\ line[q] = <<>> /\ line'[q] = <<>>
        BY <1>1, <2>2, <2>3, <2>4, AtFacts, AtFactsNext, LineFacts, LineFactsNext
    <2>6. Still({p, q})
        BY <1>1, <2>4, LineFrame
    <2> HIDE DEF p, q
    <2>7. b = Head(line[p])
        BY <2>5 DEF b
    <2>8. Rest({}, b) /\ Passes(b, p, q)
        BY <1>1, <1>3, <2>1, <2>2, <2>5, <2>6, <2>7, Passed
    <2>9. OnWay(msg[b], p)
        BY <2>2, <2>5 DEF OnWays
    <2>10. Proceeds(b, p, q)
        BY <1>1, <2>9, PolledProceeds DEF Proceeds, p, q
    <2> QED BY <1>1, <2>2, <2>5, <2>8, <2>10, OrderStep
<1> QED BY <1>2, <1>3 DEF Poll

\* A service takes the first message of its receive queue.
LEMMA ReadRxOrder ==
    ASSUME Inv, Home', OnWays, Ordered, NEW s \in RxService, ReadRx(s)
    PROVE  OnWays' /\ Ordered'
<1> DEFINE b == Head(rxq[s])
           p == <<"rx", s>>
           q == <<"hand", s>>
<1>1. /\ s \in Thread /\ Home /\ hand[s] = None /\ rxq[s] # <<>>
      /\ hand' = [hand EXCEPT ![s] = b] /\ rxq' = [rxq EXCEPT ![s] = Tail(@)]
      /\ UNCHANGED <<msg, txq, rcq, ahead>>
    BY Services DEF ReadRx, Inv
<1>2. /\ rxq[s] \in Seq(Buffer) /\ Distinct(rxq[s]) /\ rxq \in [RxService -> Seq(Buffer)]
      /\ hand \in [Thread -> Buffer \cup {None}]
    BY <1>1 DEF Home, QueuesTyped, QueuesDistinct
<1>3. b \in Buffer /\ b \in Elements(rxq[s]) /\ Elements(Tail(rxq[s])) = Elements(rxq[s]) \ {b}
    BY <1>1, <1>2, TailFacts
<1>4. b # None
    BY <1>3, ScheduleAssumption DEF ScheduleAssumption
<1>5. /\ rxq'[s] = Tail(rxq[s]) /\ \A r \in RxService : r # s => rxq'[r] = rxq[r]
      /\ hand'[s] = b /\ \A u \in Thread : u # s => hand'[u] = hand[u]
    BY <1>1, <1>2
<1> HIDE DEF b
<1>6. /\ p \in Way /\ q \in Way /\ p # q /\ at[p] = Elements(rxq[s]) /\ at[q] = {}
      /\ at'[p] = at[p] \ {b} /\ at'[q] = at[q] \cup {b}
      /\ line[p] = rxq[s] /\ line'[p] = Tail(rxq[s]) /\ line[q] = <<>> /\ line'[q] = <<>>
    BY <1>1, <1>3, <1>4, <1>5, AtFacts, AtFactsNext, LineFacts, LineFactsNext
<1>7. Still({p, q})
    BY <1>1, <1>5, LineFrame
<1> HIDE DEF p, q
<1>8. b = Head(line[p])
    BY <1>6 DEF b
<1>9. Rest({}, b) /\ Passes(b, p, q)
    BY <1>1, <1>2, <1>3, <1>6, <1>7, <1>8, Passed
<1>10. OnWay(msg[b], p)
    BY <1>3, <1>6 DEF OnWays
<1>11. Proceeds(b, p, q)
    BY <1>1, <1>10, ReadProceeds DEF Proceeds, p, q
<1> QED BY <1>1, <1>3, <1>6, <1>9, <1>11, OrderStep

\* A message goes from a hand to a queue.
LEMMA HandedOrder ==
    ASSUME Inv, Home', OnWays, Ordered, NEW t \in Thread, NEW b \in Buffer, b = hand[t],
           hand' = [hand EXCEPT ![t] = None],
           NEW q \in Way, line[q] \in Seq(Buffer), at[q] = Elements(line[q]),
           line'[q] = Append(line[q], b), at'[q] = at[q] \cup {b}, q # <<"hand", t>>,
           Still({<<"hand", t>>, q}), \A x \in Buffer : x # b => msg'[x] = msg[x], ahead' = ahead,
           msg'[b].kind = msg[b].kind, OnWay(msg'[b], q),
           StepUp(msg[b].kind, Stage(msg[b], <<"hand", t>>), Stage(msg'[b], q))
    PROVE  OnWays' /\ Ordered'
<1> DEFINE p == <<"hand", t>>
<1>1. b # None /\ hand \in [Thread -> Buffer \cup {None}] /\ Home
    BY ScheduleAssumption DEF ScheduleAssumption, Inv, Home, QueuesTyped
<1>2. hand'[t] = None
    BY <1>1
<1>3. /\ p \in Way /\ at[p] = {b} /\ at'[p] = {} /\ line[p] = <<>> /\ line'[p] = <<>>
    BY <1>1, <1>2, AtFacts, AtFactsNext, LineFacts, LineFactsNext
<1>4. p # q /\ Still({p, q}) /\ Proceeds(b, p, q)
    BY DEF Proceeds
<1> HIDE DEF p
<1>5. Rest({}, b) /\ Passes(b, p, q)
    BY <1>1, <1>3, <1>4, Passed
<1> QED BY <1>1, <1>3, <1>4, <1>5, OrderStep

\* The scheduler appends its message to a receive queue, or drops it.
LEMMA DispatchOrder ==
    ASSUME Inv, Home', OnWays, Ordered, Dispatch
    PROVE  OnWays' /\ Ordered'
<1> DEFINE b == hand["scheduler"]
           p == <<"hand", "scheduler">>
<1>1. /\ "scheduler" \in Thread /\ Home /\ Marked /\ b \in Buffer /\ rxq \in [RxService -> Seq(Buffer)]
      /\ hand' = [hand EXCEPT !["scheduler"] = None] /\ UNCHANGED <<txq, rcq>>
    BY Services, TypeParts DEF Dispatch, Inv, Home, QueuesTyped
<1>2. CASE \E d \in Destination(b) : rxq' = [rxq EXCEPT ![d] = Append(@, b)] /\ UNCHANGED <<msg, ahead>>
    <2>1. PICK d \in Destination(b) : rxq' = [rxq EXCEPT ![d] = Append(@, b)] /\ UNCHANGED <<msg, ahead>>
        BY <1>2
    <2>2. PICK e \in Table : e[1] = msg[b].src /\ e[2] = msg[b].type /\ d = e[3]
        BY DEF Destination
    <2>3. d \in RxService
        BY <2>2, Services DEF Table
    <2> DEFINE q == <<"rx", d>>
    <2>4. b # None /\ hand \in [Thread -> Buffer \cup {None}]
        BY <1>1, ScheduleAssumption DEF ScheduleAssumption, Home, QueuesTyped
    <2>5. \A u \in Thread : u # "scheduler" => hand'[u] = hand[u]
        BY <1>1, <2>4
    <2>6. p \in Way /\ at[p] = {b}
        BY <1>1, <2>4, AtFacts, LineFacts
    <2> HIDE DEF b
    <2>7. /\ rxq[d] \in Seq(Buffer) /\ rxq'[d] = Append(rxq[d], b)
          /\ \A r \in RxService : r # d => rxq'[r] = rxq[r]
          /\ Elements(Append(rxq[d], b)) = Elements(rxq[d]) \cup {b}
        BY <1>1, <2>1, <2>3, AppendFacts
    <2>8. /\ q \in Way /\ q # p /\ line[q] \in Seq(Buffer) /\ at[q] = Elements(line[q])
          /\ line'[q] = Append(line[q], b) /\ at'[q] = at[q] \cup {b}
        <3>1. q \in Way /\ line[q] = rxq[d] /\ line'[q] = rxq'[d]
            BY <2>3, LineFacts, LineFactsNext
        <3>2. at[q] = Elements(rxq[d]) /\ at'[q] = Elements(rxq'[d])
            BY <2>3, AtFacts, AtFactsNext
        <3>3. q # p
            OBVIOUS
        <3> HIDE DEF p, q
        <3> QED BY <2>7, <3>1, <3>2, <3>3
    <2>9. Still({p, q})
        BY <1>1, <2>5, <2>7, LineFrame
    <2>10. OnWay(msg[b], p)
        BY <2>6 DEF OnWays
    <2>11. OnWay(msg[b], q) /\ StepUp(msg[b].kind, Stage(msg[b], p), Stage(msg[b], q))
        BY <2>2, <2>10, DispatchProceeds
    <2>12. msg' = msg /\ ahead' = ahead
        BY <2>1
    <2>13. b = hand["scheduler"]
        BY DEF b
    <2> HIDE DEF q
    <2> QED BY <1>1, <2>8, <2>9, <2>11, <2>12, <2>13, HandedOrder
<1>3. CASE Forgotten(b) /\ UNCHANGED rxq
    BY <1>1, <1>3, LeftOrder
<1> QED BY <1>2, <1>3 DEF Dispatch, Release

LEMMA FreeInHandOrder ==
    ASSUME Inv, Home', OnWays, Ordered, NEW s \in RxService, hand[s] # None, FreeInHand(s),
           UNCHANGED <<rxq, rcq>>
    PROVE  OnWays' /\ Ordered'
<1>1. /\ s \in Thread /\ Home /\ Marked /\ hand[s] \in Buffer
    BY Services, TypeParts DEF Inv, Home, QueuesTyped, TypeOK
<1> QED BY <1>1, LeftOrder DEF FreeInHand, Release

\* A service writes the message in its hand, with any type.
LEMMA WrittenOrder ==
    ASSUME Inv, Home', OnWays, Ordered, NEW s \in {"map", "ptp", "regroup", "arp"},
           NEW b \in Buffer, b = hand[s], hand' = [hand EXCEPT ![s] = None],
           txq' = [txq EXCEPT ![s] = Append(@, b)], UNCHANGED <<rxq, rcq, ahead>>,
           \A x \in Buffer : x # b => msg'[x] = msg[x],
           msg'[b].src = s, msg'[b].kind = msg[b].kind,
           s = "map" => msg[b].src = "map" \/ msg[b].kind # "rc"
    PROVE  OnWays' /\ Ordered'
<1> DEFINE p == <<"hand", s>>
           q == <<"tx", s>>
<1>1. /\ s \in Thread /\ s \in TxService /\ Home /\ txq \in [TxService -> Seq(Buffer)]
      /\ hand \in [Thread -> Buffer \cup {None}] /\ b # None
    BY Services, ScheduleAssumption DEF ScheduleAssumption, Inv, Home, QueuesTyped
<1>2. /\ txq[s] \in Seq(Buffer) /\ txq'[s] = Append(txq[s], b)
      /\ \A r \in TxService : r # s => txq'[r] = txq[r]
      /\ \A u \in Thread : u # s => hand'[u] = hand[u]
      /\ Elements(Append(txq[s], b)) = Elements(txq[s]) \cup {b}
    BY <1>1, AppendFacts
<1>3. /\ q \in Way /\ q # p /\ line[q] \in Seq(Buffer) /\ at[q] = Elements(line[q])
      /\ line'[q] = Append(line[q], b) /\ at'[q] = at[q] \cup {b}
    <2>1. q \in Way /\ line[q] = txq[s] /\ line'[q] = txq'[s]
        BY <1>1, LineFacts, LineFactsNext
    <2>2. at[q] = Elements(txq[s]) /\ at'[q] = Elements(txq'[s])
        BY <1>1, AtFacts, AtFactsNext
    <2>3. q # p
        OBVIOUS
    <2> HIDE DEF p, q
    <2> QED BY <1>2, <2>1, <2>2, <2>3
<1>4. Still({p, q})
    BY <1>1, <1>2, LineFrame
<1>5. p \in Way /\ at[p] = {b}
    BY <1>1, AtFacts, LineFacts
<1>6. OnWay(msg[b], p)
    BY <1>5 DEF OnWays
<1>7. OnWay(msg'[b], q) /\ StepUp(msg[b].kind, Stage(msg[b], p), Stage(msg'[b], q))
    BY <1>6, WriteProceeds
<1> HIDE DEF q
<1> QED BY <1>1, <1>3, <1>4, <1>7, HandedOrder

LEMMA WriteOrFreeOrder ==
    ASSUME Inv, Home', OnWays, Ordered, NEW s \in {"map", "ptp", "regroup", "arp"}, NEW type,
           hand[s] # None, WriteOrFree(s, type), UNCHANGED <<rxq, rcq>>,
           s = "map" => msg[hand[s]].src = "map" \/ msg[hand[s]].kind # "rc"
    PROVE  OnWays' /\ Ordered'
<1> DEFINE b == hand[s]
<1>1. s \in Thread /\ Home /\ Marked /\ b \in Buffer /\ hand' = [hand EXCEPT ![s] = None]
    BY Services, TypeParts DEF Inv, Home, QueuesTyped, TypeOK, WriteOrFree
<1>2. CASE txq' = [txq EXCEPT ![s] = Append(@, b)]
               /\ msg' = [msg EXCEPT ![b].src = s, ![b].type = type] /\ UNCHANGED ahead
    <2>1. /\ \A x \in Buffer : x # b => msg'[x] = msg[x]
          /\ msg'[b].src = s /\ msg'[b].kind = msg[b].kind
        <3>1. msg' = [msg EXCEPT ![b] = [msg[b] EXCEPT !.src = s, !.type = type]]
            BY <1>1, <1>2 DEF Marked, Message
        <3>2. msg[b] \in Message
            BY <1>1 DEF Marked
        <3> QED BY <1>1, <3>1, <3>2 DEF Marked, Message
    <2> QED BY <1>1, <1>2, <2>1, WrittenOrder
<1>3. CASE Release(b) /\ UNCHANGED txq
    BY <1>1, <1>3, LeftOrder DEF Release
<1> QED BY <1>2, <1>3 DEF WriteOrFree

LEMMA ToRcQueueOrder ==
    ASSUME Inv, Home', OnWays, Ordered, ToRcQueue
    PROVE  OnWays' /\ Ordered'
<1> DEFINE b == hand["map"]
           p == <<"hand", "map">>
           q == <<"rc", "queue">>
<1>1. /\ "map" \in Thread /\ Home /\ Marked /\ b \in Buffer /\ rcq \in Seq(Buffer)
      /\ hand \in [Thread -> Buffer \cup {None}]
      /\ hand' = [hand EXCEPT !["map"] = None] /\ UNCHANGED <<txq, rxq>>
      /\ msg[b].src = "request" /\ msg[b].kind = "rc"
    BY Services, TypeParts DEF ToRcQueue, Handles, Inv, Home, QueuesTyped, TypeOK
<1>2. CASE rcq' = Append(rcq, b) /\ msg' = [msg EXCEPT ![b].src = "map"] /\ UNCHANGED ahead
    <2>1. /\ \A x \in Buffer : x # b => msg'[x] = msg[x]
          /\ msg'[b].src = "map" /\ msg'[b].kind = "rc"
        <3>1. msg' = [msg EXCEPT ![b] = [msg[b] EXCEPT !.src = "map"]]
            BY <1>1, <1>2 DEF Marked, Message
        <3>2. msg[b] \in Message
            BY <1>1 DEF Marked
        <3> QED BY <1>1, <3>1, <3>2 DEF Marked, Message
    <2>2. b # None /\ \A u \in Thread : u # "map" => hand'[u] = hand[u]
        BY <1>1, ScheduleAssumption DEF ScheduleAssumption
    <2>3. p \in Way /\ at[p] = {b}
        BY <1>1, <2>2, AtFacts, LineFacts
    <2>4. b = hand["map"]
        OBVIOUS
    <2> HIDE DEF b
    <2>5. Elements(Append(rcq, b)) = Elements(rcq) \cup {b}
        BY <1>1, AppendFacts
    <2>6. /\ q \in Way /\ q # p /\ line[q] \in Seq(Buffer) /\ at[q] = Elements(line[q])
          /\ line'[q] = Append(line[q], b) /\ at'[q] = at[q] \cup {b}
        BY <1>1, <1>2, <2>5, AtFacts, AtFactsNext, LineFacts, LineFactsNext
    <2>7. Still({p, q})
        BY <1>1, <2>2, LineFrame
    <2>8. OnWay(msg[b], p)
        BY <2>3 DEF OnWays
    <2>9. OnWay(msg'[b], q) /\ StepUp(msg[b].kind, Stage(msg[b], p), Stage(msg'[b], q))
        BY <1>1, <2>1, <2>8, RcProceeds
    <2>10. ahead' = ahead /\ msg'[b].kind = msg[b].kind
        BY <1>1, <1>2, <2>1
    <2> HIDE DEF q
    <2> QED BY <1>1, <2>1, <2>4, <2>6, <2>7, <2>9, <2>10, HandedOrder
<1>3. CASE Forgotten(b) /\ UNCHANGED rcq
    BY <1>1, <1>3, LeftOrder
<1> QED BY <1>2, <1>3 DEF ToRcQueue

\* The tick leaves, and the first of the RC queue comes into the hand.
LEMMA RcHandlerOrder ==
    ASSUME Inv, Home', OnWays, Ordered, RcHandler
    PROVE  OnWays' /\ Ordered'
<1> DEFINE a == hand["map"]
           b == Head(rcq)
           p == <<"rc", "queue">>
           q == <<"hand", "map">>
<1>1. /\ "map" \in Thread /\ Home /\ Marked /\ a \in Buffer /\ a # None
      /\ rcq \in Seq(Buffer) /\ Distinct(rcq) /\ hand \in [Thread -> Buffer \cup {None}]
      /\ Forgotten(a) /\ UNCHANGED <<txq, rxq>>
    BY Services, TypeParts DEF RcHandler, Handles, Release, Inv, Home, QueuesTyped, QueuesDistinct, TypeOK
<1>2. CASE rcq = <<>>
    <2>1. hand' = [hand EXCEPT !["map"] = None] /\ UNCHANGED rcq
        BY <1>2 DEF RcHandler
    <2> QED BY <1>1, <2>1, LeftOrder
<1>3. CASE rcq # <<>>
    <2>1. hand' = [hand EXCEPT !["map"] = b] /\ rcq' = Tail(rcq)
        BY <1>3 DEF RcHandler
    <2>2. b \in Buffer /\ b \in Elements(rcq) /\ Elements(Tail(rcq)) = Elements(rcq) \ {b}
        BY <1>1, <1>3, TailFacts
    <2>3. hand'["map"] = b /\ (\A u \in Thread : u # "map" => hand'[u] = hand[u]) /\ b # None
        BY <1>1, <2>1, <2>2, ScheduleAssumption DEF ScheduleAssumption
    <2>4. /\ \A y : ~Before(rcq, y, Head(rcq))
          /\ \A c, d : c # Head(rcq) /\ Before(rcq, c, d) => Before(Tail(rcq), c, d)
        BY <1>1, <1>3, BeforeTail
    <2>5. \A y : ~Before(rcq, y, b)
        BY <2>4
    <2>6. \A c, d : c # b /\ Before(rcq, c, d) => Before(rcq', c, d)
        BY <2>1, <2>4
    <2> HIDE DEF a, b
    <2>7. p \in Way /\ q \in Way /\ p # q /\ at[p] = Elements(rcq) /\ line[p] = rcq
        BY <1>1, AtFacts, LineFacts
    <2>8. at'[p] = Elements(rcq) \ {b} /\ line'[p] = rcq'
        BY <2>1, <2>2, AtFactsNext, LineFactsNext
    <2>9. at[q] = {a} /\ line[q] = <<>>
        BY <1>1, AtFacts, LineFacts DEF a
    <2>10. at'[q] = {b} /\ line'[q] = <<>>
        BY <1>1, <2>3, AtFactsNext, LineFactsNext
    <2>11. Still({p, q})
        BY <1>1, <2>3, LineFrame
    <2> HIDE DEF p, q
    <2>12. \A r \in Way : r \in Place
        BY DEF Way
    <2>13. \A r \in Way : (b \in at[r] => r = p) /\ (a \in at[r] => r = q)
        BY <1>1, <2>2, <2>7, <2>9, <2>12 DEF Home, Apart
    <2>14. a # b
        BY <2>2, <2>7, <2>9, <2>13
    <2>15. /\ \A x \in Buffer : x # a => msg'[x] = msg[x] /\ ahead'[x] = ahead[x] \ {a}
           /\ ahead'[a] = {}
        BY <1>1 DEF Forgotten, Marked
    <2>16. \A r \in Way : (b \in at'[r] => r = q) /\ a \notin at'[r]
        <3> SUFFICES ASSUME NEW r \in Way PROVE (b \in at'[r] => r = q) /\ a \notin at'[r]
            OBVIOUS
        <3>1. a \notin Elements(rcq)
            BY <2>7, <2>13
        <3>2. CASE r = p
            BY <2>8, <3>1, <3>2
        <3>3. CASE r = q
            BY <2>10, <2>14, <3>3
        <3>4. CASE r # p /\ r # q
            BY <2>11, <2>13, <3>4 DEF Still
        <3> QED BY <3>2, <3>3, <3>4
    <2>17. \A x \in Buffer : x # a /\ x # b => \A r \in Way : x \in at'[r] <=> x \in at[r]
        BY <2>7, <2>8, <2>9, <2>10, <2>11 DEF Still
    <2>18. \A x, y \in Buffer : y # b => \A r \in Way : Before(line[r], y, x) => Before(line'[r], y, x)
        BY <2>6, <2>7, <2>8, <2>9, <2>10, <2>11 DEF Still
    <2>19. Rest({a}, b)
        BY <2>15, <2>16, <2>17, <2>18 DEF Rest
    <2>20. Passes(b, p, q)
        <3>1. b \in at[p] /\ b \in at'[q] /\ \A y \in at'[q] \ {b} : Before(line'[q], y, b)
            BY <2>2, <2>7, <2>10
        <3>2. \A y : ~Before(line[p], y, b)
            BY <2>5, <2>7
        <3> QED BY <2>7, <2>13, <2>16, <3>1, <3>2 DEF Passes
    <2>21. OnWay(msg[b], p) /\ msg'[b] = msg[b]
        BY <2>2, <2>7, <2>14, <2>15 DEF OnWays
    <2>22. Proceeds(b, p, q)
        BY <2>21, RcProceeds DEF Proceeds, p, q
    <2> QED BY <1>1, <2>2, <2>7, <2>19, <2>20, <2>22, OrderStep
<1> QED BY <1>2, <1>3

\* What the PTP service takes for a tick is one.
LEMMA TickKind ==
    ASSUME NEW m, OnWay(m, <<"hand", "ptp">>), m.type = "ptpTick"
    PROVE  m.kind = "ptpTick"
<1>1. m.type = FirstType(m.kind)
    BY DEF OnWay, Coming, Going
<1>2. ASSUME m.kind \in Packet PROVE PacketType[m.kind] # "ptpTick"
    <2>1. m.kind \in {"nmac", "ts", "regroup", "arp", "rc", "be", "unmapped",
                      "sync", "delayReq", "delayResp"}
        BY <1>2, ScheduleAssumption DEF ScheduleAssumption
    <2> QED BY <2>1 DEF PacketType
<1> QED BY <1>1, <1>2 DEF FirstType

LEMMA PtpOrder ==
    ASSUME Inv, Home', OnWays, Ordered, PtpMaster \/ PtpSlave
    PROVE  OnWays' /\ Ordered'
<1> DEFINE b == hand["ptp"]
<1>1. /\ "ptp" \in RxService /\ "ptp" \in Thread /\ Home /\ Marked /\ b \in Buffer /\ b # None
      /\ hand["ptp"] # None /\ UNCHANGED <<rxq, rcq>>
    BY Services, TypeParts DEF PtpMaster, PtpSlave, Handles, Inv, Home, QueuesTyped, TypeOK
<1>2. CASE FreeInHand("ptp")
    BY <1>1, <1>2, FreeInHandOrder
<1>3. CASE WriteOrFree("ptp", "ptp")
    BY <1>1, <1>3, WriteOrFreeOrder
<1>4. CASE hand' = [hand EXCEPT !["ptp"] = None] /\ Release(b) /\ UNCHANGED txq
    BY <1>1, <1>4, LeftOrder DEF Release
<1>5. CASE /\ hand' = [hand EXCEPT !["ptp"] = None] /\ msg[b].type = "ptpTick"
           /\ txq' = [txq EXCEPT !["ptp"] = Append(@, b)] /\ UNCHANGED ahead
           /\ msg' = [msg EXCEPT ![b] = [src |-> "ptp", type |-> "ptp", kind |-> "ptpTick"]]
    <2>1. <<"hand", "ptp">> \in Way /\ b \in at[<<"hand", "ptp">>]
        BY <1>1, AtFacts, LineFacts
    <2>2. OnWay(msg[b], <<"hand", "ptp">>)
        BY <2>1 DEF OnWays
    <2>3. msg[b].kind = "ptpTick"
        BY <1>5, <2>2, TickKind
    <2>4. /\ \A x \in Buffer : x # b => msg'[x] = msg[x]
          /\ msg'[b].src = "ptp" /\ msg'[b].kind = "ptpTick"
        BY <1>1, <1>5 DEF Marked
    <2> QED BY <1>1, <1>5, <2>3, <2>4, WrittenOrder
<1> QED BY <1>2, <1>3, <1>4, <1>5 DEF PtpMaster, PtpSlave

LEMMA ReceiveOrder ==
    ASSUME Inv, Home', OnWays, Ordered, Receive
    PROVE  OnWays' /\ Ordered'
<1>1. PICK b \in Buffer, p \in Packet : WriteNew("request", b, PacketType[p], p)
    BY DEF Receive
<1> DEFINE m == [src |-> "request", type |-> PacketType[p], kind |-> p]
<1>2. OnWay(m, <<"tx", "request">>)
    BY DEF OnWay, Coming, Origin, FirstType, Front
<1>3. "request" \in TxService /\ "request" \in Front
    BY Services DEF Front
<1>4. UNCHANGED <<rxq, rcq, hand>>
    BY DEF Receive
<1> QED BY <1>1, <1>2, <1>3, <1>4, WriteNewOrder

LEMMA ConfigureOrder ==
    ASSUME Inv, Home', OnWays, Ordered, Configure
    PROVE  OnWays' /\ Ordered'
<1>1. PICK b \in Buffer : WriteNew("nmac", b, "nmac", "config")
    BY DEF Configure
<1> DEFINE m == [src |-> "nmac", type |-> "nmac", kind |-> "config"]
<1>2. OnWay(m, <<"tx", "nmac">>)
    BY DEF OnWay, Going, Via, Front
<1>3. "nmac" \in TxService
    BY Services
<1>4. UNCHANGED <<rxq, rcq, hand>>
    BY DEF Configure
<1> QED BY <1>1, <1>2, <1>3, <1>4, WriteNewOrder

LEMMA TimerOutOrder ==
    ASSUME Inv, Home', OnWays, Ordered, TimerOut
    PROVE  OnWays' /\ Ordered'
<1>1. PICK b \in Buffer, type \in {"mapTick", "ptpTick"} : WriteNew("timer", b, type, type)
    BY DEF TimerOut
<1> DEFINE m == [src |-> "timer", type |-> type, kind |-> type]
<1>2. type \notin Packet
    BY ScheduleAssumption DEF ScheduleAssumption
<1>3. OnWay(m, <<"tx", "timer">>)
    BY <1>2 DEF OnWay, Coming, Origin, FirstType, Front
<1>4. "timer" \in TxService /\ "timer" \in Front
    BY Services DEF Front
<1>5. UNCHANGED <<rxq, rcq, hand>>
    BY DEF TimerOut
<1> QED BY <1>1, <1>3, <1>4, <1>5, WriteNewOrder

LEMMA MakeOffsetOrder ==
    ASSUME Inv, Home', OnWays, Ordered, MakeOffset
    PROVE  OnWays' /\ Ordered'
<1>1. UNCHANGED <<rxq, rcq, hand>>
    BY DEF MakeOffset
<1>2. CASE \E c \in Buffer : WriteNew("ptp", c, "nmac", "offset")
    <2>1. PICK c \in Buffer : WriteNew("ptp", c, "nmac", "offset")
        BY <1>2
    <2> DEFINE m == [src |-> "ptp", type |-> "nmac", kind |-> "offset"]
    <2>2. OnWay(m, <<"tx", "ptp">>)
        BY DEF OnWay, Going, Via, Front
    <2>3. "ptp" \in TxService
        BY Services
    <2> QED BY <1>1, <2>1, <2>2, <2>3, WriteNewOrder
<1>3. CASE UNCHANGED <<msg, txq, ahead>>
    <2>1. Still({})
        BY <1>1, <1>3, LineFrame
    <2> QED BY <1>3, <2>1, StillOrder
<1> QED BY <1>2, <1>3 DEF MakeOffset

\* So does every step.
LEMMA NextOrder ==
    ASSUME Inv, OnWays, Ordered, [Next]_vars
    PROVE  OnWays' /\ Ordered'
<1> Home'
    BY Moves
<1>1. CASE Poll
    BY <1>1, PollOrder
<1>2. CASE Dispatch
    BY <1>2, DispatchOrder
<1>3. CASE Receive \/ Configure \/ TimerOut
    BY <1>3, ReceiveOrder, ConfigureOrder, TimerOutOrder
<1>4. CASE \E s \in RxService : ReadRx(s)
    BY <1>4, ReadRxOrder
<1>5. CASE RcHandler \/ ToRcQueue
    BY <1>5, RcHandlerOrder, ToRcQueueOrder
<1>6. CASE MapOther
    <2>1. "map" \in RxService /\ hand["map"] # None /\ UNCHANGED <<rxq, rcq>>
        BY <1>6, Services DEF MapOther, Handles
    <2>2. CASE FreeInHand("map")
        BY <2>1, <2>2, FreeInHandOrder
    <2>3. CASE WriteOrFree("map", "forward")
        <3>1. msg[hand["map"]].src = "map" \/ msg[hand["map"]].kind # "rc"
            BY <1>6 DEF MapOther
        <3> QED BY <2>1, <2>3, <3>1, WriteOrFreeOrder
    <2> QED BY <1>6, <2>2, <2>3 DEF MapOther
<1>7. CASE PtpMaster \/ PtpSlave
    BY <1>7, PtpOrder
<1>8. CASE MakeOffset
    BY <1>8, MakeOffsetOrder
<1>9. CASE Send
    BY <1>9, Services, FreeInHandOrder DEF Send, Handles
<1>10. CASE Regroup
    BY <1>10, Services, FreeInHandOrder, WriteOrFreeOrder DEF Regroup, Handles
<1>11. CASE ArpReply
    BY <1>11, Services, FreeInHandOrder, WriteOrFreeOrder DEF ArpReply, Handles
<1>12. CASE UNCHANGED vars
    <2>1. Still({})
        BY <1>12, LineFrame DEF vars
    <2> QED BY <1>12, <2>1, StillOrder DEF vars
<1>13. \A s \in {"map", "ptp", "response", "regroup", "arp"} : s \in RxService
    BY Services
<1> QED BY <1>1, <1>2, <1>3, <1>4, <1>5, <1>6, <1>7, <1>8, <1>9, <1>10, <1>11, <1>12, <1>13
        DEF Next, Scheduler, Map, Ptp, DataResponse, RegroupService, ArpService

LEMMA InitOrder == Init => OnWays /\ Ordered
<1> SUFFICES ASSUME Init PROVE OnWays /\ Ordered
    OBVIOUS
<1>1. QueuesTyped
    BY InitInv DEF Inv, Home
<1>2. InSystem = {}
    <2>1. Elements(<<>>) = {}
        BY DEF Elements
    <2> QED BY <2>1 DEF Init, InSystem
<1>3. OnWays
    BY <1>1, <1>2, InSystemWay DEF OnWays
<1>4. Ordered
    BY DEF Init, Ordered
<1> QED BY <1>3, <1>4

\* Nothing is further than the message that is being sent.
LEMMA SentIsFirst ==
    ASSUME Inv, OnWays, Ordered, NEW b \in Buffer, hand["response"] = b
    PROVE  ahead[b] = {}
<1> SUFFICES ASSUME NEW c \in ahead[b] PROVE FALSE
    OBVIOUS
<1> DEFINE r == <<"hand", "response">>
<1>1. r \in Place /\ at[r] = {b} /\ line[r] = <<>>
    BY Services, AtFacts, LineFacts, ScheduleAssumption DEF ScheduleAssumption
<1>2. PICK p \in Way, q \in Way :
        /\ b \in at[p] /\ c \in at[q]
        /\ Stage(msg[b], p) < Stage(msg[c], q) \/ (p = q /\ Before(line[p], c, b))
    BY DEF Ordered, Further
<1>3. p = r
    BY <1>1, <1>2 DEF Inv, Home, Apart, Way
<1>4. Stage(msg[b], p) = 10
    BY <1>3 DEF Stage
<1>5. Stage(msg[c], q) \in 1 .. 10
    BY <1>2, StageOf
<1>6. ~Before(line[p], c, b)
    BY <1>1, <1>3 DEF Before
<1> QED BY <1>2, <1>4, <1>5, <1>6

\* Messages of one flow are sent in the order they came in, for any number of
\* buffers, any capacities and any packets: messages of one kind go through the
\* same stages, and every queue between two stages is served from its head.
THEOREM FlowsInOrder == Spec => FlowOrder
<1> DEFINE Step == \A b \in Buffer : (hand["response"] = b /\ hand'["response"] = None)
                                         => ahead[b] \cap InSystem = {}
<1>1. Inv /\ OnWays /\ Ordered /\ [Next]_vars => (OnWays /\ Ordered)'
    BY NextOrder
<1>2. Inv /\ OnWays /\ Ordered => Step
    BY SentIsFirst
<1> HIDE DEF Step
<1>3. Spec => [][Step]_vars
    BY InitInv, NextInv, InitOrder, <1>1, <1>2, PTL DEF Spec
<1> QED BY <1>3 DEF FlowOrder, Step
=============================================================================
