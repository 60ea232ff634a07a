--------------------------- MODULE BufPool_proofs ---------------------------
(***************************************************************************)
(* Proofs about the pool of buffers, for any number of threads, slots and  *)
(* buffers and for every interleaving of their loops.  No buffer is in two *)
(* places, since each step moves a set of buffers from one place to        *)
(* another, or overwrites a place, and a critical section reads the slot   *)
(* it empties.  A count is the length of its chain, or too large by one    *)
(* list after a lost race.  And a count of slots and threads at or behind  *)
(* each index shows that a give-back always finds an empty slot.           *)
(***************************************************************************)
EXTENDS BufPool, FiniteSetTheorems, TLAPS

\* The part of the type invariant the argument needs, with the fact that a
\* thread inside a critical section has an index of the pool.
AtSlot == Taking \cup Filling

Shape ==
    /\ slot \in [Slots -> SUBSET Buffer]
    /\ list \in [Thread -> SUBSET Buffer]
    /\ cut \in [Thread -> SUBSET Buffer]
    /\ inUse \subseteq Buffer
    /\ pc \in [Thread -> Places]
    /\ idx \in [Thread -> 0 .. PoolNum]
    /\ lateGet \subseteq Thread /\ latePut \subseteq Thread
    /\ \A t \in Thread : pc[t] \in AtSlot => idx[t] \in Slots

IndInv == Shape /\ NothingShared

\* A new list starts empty, and so do the messages.
LEMMA InitShared == Init => IndInv
  BY PoolAssumption
  DEF Init, IndInv, Shape, NothingShared, Slots, Places, AtSlot, Taking, Filling, FirstList

\* Taking buffers out of places, or leaving them alone, shares nothing.
LEMMA Shrink ==
  ASSUME NothingShared, inUse' \subseteq inUse,
         \A i \in Slots : slot'[i] \subseteq slot[i],
         \A t \in Thread : list'[t] \subseteq list[t] /\ cut'[t] \subseteq cut[t]
  PROVE  NothingShared'
<1>1. \A i \in Slots : slot'[i] \cap inUse' = {}
  BY DEF NothingShared
<1>2. \A i \in Slots : \A j \in Slots \ {i} : slot'[i] \cap slot'[j] = {}
  BY DEF NothingShared
<1>3. \A i \in Slots : \A t \in Thread : slot'[i] \cap (list'[t] \cup cut'[t]) = {}
  BY DEF NothingShared
<1>4. \A t \in Thread :
        /\ list'[t] \cap cut'[t] = {}
        /\ (list'[t] \cup cut'[t]) \cap inUse' = {}
  BY DEF NothingShared
<1>5. \A t \in Thread : \A u \in Thread \ {t} :
        (list'[t] \cup cut'[t]) \cap (list'[u] \cup cut'[u]) = {}
  BY DEF NothingShared
<1> QED BY <1>1, <1>2, <1>3, <1>4, <1>5 DEF NothingShared

\* The steps of the loops move an index and a place, and at most empty a list.
LEMMA ProbesShared ==
  ASSUME IndInv, NEW t \in Thread, InitProbe(t) \/ MallocProbe(t) \/ FreeProbe(t)
  PROVE  IndInv'
<1> USE PoolAssumption DEF IndInv, Goto, Slots
<1>1. idx[t] # PoolNum => idx[t] \in Slots /\ idx[t] + 1 \in 0 .. PoolNum
  BY DEF Shape
<1>2. ASSUME NEW here \in Places \ AtSlot, NEW there \in Taking, GetProbe(t, here, there)
      PROVE  IndInv'
  <2>1. CASE idx[t] = PoolNum
    BY <1>2, <2>1, Shrink DEF GetProbe, Shape, Places, AtSlot, Taking, Filling
  <2>2. CASE idx[t] # PoolNum
    <3>1. /\ \/ pc' = [pc EXCEPT ![t] = there] /\ idx' = idx
             \/ pc' = pc /\ idx' = [idx EXCEPT ![t] = @ + 1]
          /\ UNCHANGED <<list, slot, cut, inUse, lateGet, latePut>>
      BY <1>2, <2>2 DEF GetProbe
    <3>2. Shape'
      BY ZenonT(30), <1>1, <1>2, <2>2, <3>1 DEF GetProbe, Shape, Places, AtSlot, Taking, Filling
    <3>3. NothingShared'
      BY <3>1, Shrink
    <3> QED BY <3>2, <3>3
  <2> QED BY <2>1, <2>2
<1>3. CASE InitProbe(t)
  BY <1>2, <1>3 DEF InitProbe, Places, AtSlot, Taking, Filling
<1>4. CASE MallocProbe(t)
  BY <1>2, <1>4 DEF MallocProbe, Places, AtSlot, Taking, Filling
<1>5. CASE FreeProbe(t)
  <2>1. CASE idx[t] = PoolNum
    BY <1>5, <2>1, Shrink DEF FreeProbe, Shape, Places, AtSlot, Taking, Filling
  <2>2. CASE idx[t] # PoolNum
    BY <1>1, <1>5, <2>2, Shrink DEF FreeProbe, Shape, Places, AtSlot, Taking, Filling
  <2> QED BY <2>1, <2>2
<1> QED BY <1>3, <1>4, <1>5

\* A critical section of hx_buf_list_get empties the slot it reads.
LEMMA TakesShared ==
  ASSUME IndInv, NEW t \in Thread, InitTake(t) \/ MallocTake(t)
  PROVE  IndInv'
<1> USE PoolAssumption DEF IndInv, Goto, EmptiedSlot, Outrun
<1>1. idx[t] \in Slots
  BY DEF InitTake, MallocTake, Shape, AtSlot, Taking
<1>2. CASE InitTake(t)
  <2>1. Shape'
    BY <1>1, <1>2 DEF InitTake, Shape, Places, AtSlot, Taking, Filling
  <2>2. NothingShared'
    BY <1>1, <1>2 DEF InitTake, Shape, NothingShared
  <2> QED BY <2>1, <2>2
<1>3. CASE MallocTake(t)
  <2>1. PICK got \in SUBSET slot[idx[t]] :
          /\ list' = [list EXCEPT ![t] = slot[idx[t]] \ got]
          /\ inUse' = inUse \cup got
    BY <1>3 DEF MallocTake
  <2>2. Shape'
    BY <1>1, <1>3, <2>1 DEF MallocTake, Shape, Places, AtSlot, Taking, Filling
  <2>3. NothingShared'
    BY <1>1, <1>3, <2>1 DEF MallocTake, Shape, NothingShared
  <2> QED BY <2>2, <2>3
<1> QED BY <1>2, <1>3

\* An allocation moves one buffer of the thread's list to the messages, a free
\* moves one back, and may cut the list in two.
LEMMA CallsShared ==
  ASSUME IndInv, NEW t \in Thread,
         Malloc(t) \/ MallocRefill(t) \/ (\E b \in inUse : Free(t, b))
  PROVE  IndInv'
<1> USE PoolAssumption DEF IndInv, Goto
<1>1. CASE Malloc(t)
  <2>1. PICK b \in list[t] : list' = [list EXCEPT ![t] = @ \ {b}] /\ inUse' = inUse \cup {b}
    BY <1>1 DEF Malloc
  <2>2. Shape'
    BY <1>1, <2>1 DEF Malloc, Shape
  <2>3. NothingShared'
    BY <1>1, <2>1 DEF Malloc, Shape, NothingShared
  <2> QED BY <2>2, <2>3
<1>2. CASE MallocRefill(t)
  BY <1>2, Shrink DEF MallocRefill, Shape, Places, AtSlot, Taking, Filling, Slots
<1>3. ASSUME NEW b \in inUse, Free(t, b)
      PROVE  IndInv'
  <2>1. b \in Buffer /\ inUse' = inUse \ {b}
    BY <1>3 DEF Free, Shape
  <2>2. CASE list' = [list EXCEPT ![t] = @ \cup {b}] /\ UNCHANGED <<cut, pc, idx>>
    <3>1. Shape'
      BY <1>3, <2>1, <2>2 DEF Free, Shape
    <3>2. NothingShared'
      BY <1>3, <2>1, <2>2 DEF Free, Shape, NothingShared
    <3> QED BY <3>1, <3>2
  <2>3. ASSUME NEW s \in FirstList(list[t] \cup {b}),
               cut' = [cut EXCEPT ![t] = s],
               list' = [list EXCEPT ![t] = (@ \cup {b}) \ s],
               idx' = [idx EXCEPT ![t] = 0], Goto(t, "freeProbe")
        PROVE  IndInv'
    <3>1. s \subseteq list[t] \cup {b}
      BY DEF FirstList
    <3>2. Shape'
      BY <1>3, <2>1, <2>3, <3>1 DEF Free, Shape, Places, AtSlot, Taking, Filling
    <3>3. NothingShared'
      BY <1>3, <2>1, <2>3, <3>1 DEF Free, Shape, NothingShared
    <3> QED BY <3>2, <3>3
  <2> QED BY <1>3, <2>2, <2>3 DEF Free
<1> QED BY <1>1, <1>2, <1>3

\* The critical section that fills a slot overwrites it with the list it carries.
LEMMA StoreShared ==
  ASSUME IndInv, NEW t \in Thread, FreeStore(t)
  PROVE  IndInv'
<1> USE PoolAssumption DEF IndInv, Goto, Stored, Outrun
<1>1. idx[t] \in Slots
  BY DEF FreeStore, Shape, AtSlot, Filling
<1>2. Shape'
  BY <1>1 DEF FreeStore, Shape, Places, AtSlot, Taking, Filling
<1>3. NothingShared'
  BY <1>1 DEF FreeStore, Shape, NothingShared
<1> QED BY <1>2, <1>3

LEMMA NextInd == IndInv /\ [Next]_vars => IndInv'
<1> SUFFICES ASSUME IndInv, [Next]_vars PROVE IndInv'
  OBVIOUS
<1>1. CASE UNCHANGED vars
  BY <1>1 DEF vars, IndInv, Shape, NothingShared
<1>2. CASE Next
  BY <1>2, ProbesShared, TakesShared, CallsShared, StoreShared DEF Next
<1> QED BY <1>1, <1>2

\* No buffer is ever in two places at once, so hx_malloc never hands out one
\* that another thread holds, for any number of threads allocating and freeing
\* at the same time.
THEOREM NeverShared == Spec => []NothingShared
<1>1. IndInv => NothingShared
  BY DEF IndInv
<1> QED BY InitShared, NextInd, <1>1, PTL DEF Spec

-----------------------------------------------------------------------------
(* The lengths of the lists.  The tests outside the mutex can lose a whole   *)
(* list, and then the count of a thread claims it; they cannot lose a part   *)
(* of one.                                                                   *)

LEMMA Finite == ASSUME NEW S \in SUBSET Buffer PROVE IsFiniteSet(S) /\ Cardinality(S) \in Nat
BY FS_Subset, FS_CardinalityType, PoolAssumption DEF PoolAssumption

LEMMA Difference ==
  ASSUME NEW S \in SUBSET Buffer, NEW T \in SUBSET S
  PROVE  Cardinality(S \ T) = Cardinality(S) - Cardinality(T)
<1>1. S \cap T = T
  OBVIOUS
<1>2. IsFiniteSet(S)
  BY Finite
<1>3. Cardinality(S \ T) = Cardinality(S) - Cardinality(S \cap T)
  BY <1>2, FS_Difference, Zenon
<1> QED BY <1>1, <1>3

Counts == 0 .. 2 * ListNum - 1

\* Where a thread has a list on its way to the pool, and that list is whole.
Giving == {"freeProbe", "freeStore"}

Lengths ==
    /\ count \in [Thread -> Counts]
    /\ ChainsLongEnough /\ SlotsWhole
    /\ \A t \in Thread : IF pc[t] \in Giving THEN Cardinality(cut[t]) = ListNum
                                              ELSE cut[t] = {}

\* A thread's list and its count change together, or both stay.
LEMMA OwnList ==
  ASSUME IndInv, Lengths, NEW t \in Thread, count' \in [Thread -> Counts],
         \A u \in Thread \ {t} : list'[u] = list[u] /\ count'[u] = count[u],
         count'[t] - Cardinality(list'[t]) \in {0, ListNum}
  PROVE  ChainsLongEnough'
BY DEF Lengths, ChainsLongEnough

\* A thread's new list, and its new count.
LEMMA Sets ==
  ASSUME IndInv, Lengths, NEW t \in Thread, NEW L, NEW n \in Counts,
         n - Cardinality(L) \in {0, ListNum},
         list' = [list EXCEPT ![t] = L], count' = [count EXCEPT ![t] = n]
  PROVE  count' \in [Thread -> Counts] /\ ChainsLongEnough'
<1>1. count' \in [Thread -> Counts] /\ list'[t] = L /\ count'[t] = n
      /\ \A u \in Thread \ {t} : list'[u] = list[u] /\ count'[u] = count[u]
  BY DEF IndInv, Shape, Lengths
<1> QED BY <1>1, OwnList

LEMMA LengthsInit == Init => Lengths
<1> SUFFICES ASSUME Init PROVE Lengths
  OBVIOUS
<1>1. Cardinality({}) = 0
  BY FS_EmptySet
<1>2. SlotsWhole
  BY DEF Init, SlotsWhole, FirstList
<1> QED BY <1>1, <1>2, PoolAssumption
        DEF Init, Lengths, ChainsLongEnough, Counts, Giving, PoolAssumption

LEMMA GetLengths ==
  ASSUME IndInv, Lengths, NEW t \in Thread,
         InitProbe(t) \/ MallocProbe(t) \/ InitTake(t) \/ MallocTake(t)
  PROVE  Lengths'
<1> USE DEF IndInv, Shape, Goto, EmptiedSlot
<1>0. Cardinality({}) = 0 /\ ListNum \in Nat \ {0}
  BY FS_EmptySet, PoolAssumption DEF PoolAssumption
<1>1. /\ cut' = cut /\ pc[t] \notin Giving
      /\ pc' = pc \/ \E q \in Places \ Giving : pc' = [pc EXCEPT ![t] = q]
  BY DEF InitProbe, MallocProbe, GetProbe, InitTake, MallocTake, Giving, Places
<1>2. \A u \in Thread : IF pc'[u] \in Giving THEN Cardinality(cut'[u]) = ListNum
                                              ELSE cut'[u] = {}
  BY <1>1 DEF Lengths
<1>3. ASSUME NEW here, NEW there, GetProbe(t, here, there)
      PROVE  Lengths'
  <2>1. SlotsWhole'
    BY <1>3 DEF GetProbe, Lengths, SlotsWhole
  <2>2. count' \in [Thread -> Counts] /\ ChainsLongEnough'
    <3>1. CASE UNCHANGED <<list, count>>
      BY <3>1 DEF Lengths, ChainsLongEnough
    <3>2. CASE list' = [list EXCEPT ![t] = {}] /\ count' = [count EXCEPT ![t] = 0]
      <4>1. 0 - Cardinality({}) \in {0, ListNum} /\ 0 \in Counts
        BY <1>0 DEF Counts
      <4> QED BY <3>2, <4>1, Sets
    <3> QED BY <1>3, <3>1, <3>2 DEF GetProbe
  <2> QED BY <1>2, <2>1, <2>2 DEF Lengths
<1>4. ASSUME NEW got \in SUBSET slot[idx[t]], idx[t] \in Slots, slot' = EmptiedSlot(idx[t]),
             Cardinality(got) \in Nat, Cardinality(got) <= Cardinality(slot[idx[t]]),
             list' = [list EXCEPT ![t] = slot[idx[t]] \ got],
             count' = [count EXCEPT ![t] = ListNum - Cardinality(got)]
      PROVE  Lengths'
  <2>1. slot[idx[t]] \in SUBSET Buffer /\ Cardinality(slot[idx[t]]) \in {0, ListNum}
    BY <1>4 DEF Lengths, SlotsWhole
  <2>2. Cardinality(slot[idx[t]] \ got) = Cardinality(slot[idx[t]]) - Cardinality(got)
    BY <2>1, Difference
  <2>3. count' \in [Thread -> Counts] /\ ChainsLongEnough'
    <3> DEFINE L == slot[idx[t]] \ got
               n == ListNum - Cardinality(got)
    <3>1. L \in SUBSET Buffer /\ n \in Counts /\ n - Cardinality(L) \in {0, ListNum}
      BY <1>0, <1>4, <2>1, <2>2 DEF Counts
    <3> HIDE DEF L, n
    <3>2. list' = [list EXCEPT ![t] = L] /\ count' = [count EXCEPT ![t] = n]
      BY <1>4 DEF L, n
    <3> QED BY <3>1, <3>2, Sets
  <2>4. SlotsWhole'
    BY <1>0, <1>4 DEF Lengths, SlotsWhole
  <2> QED BY <1>2, <2>3, <2>4 DEF Lengths
<1>5. CASE InitProbe(t)
  BY <1>3, <1>5 DEF InitProbe
<1>6. CASE MallocProbe(t)
  BY <1>3, <1>6 DEF MallocProbe
<1>7. CASE InitTake(t)
  <2>1. idx[t] \in Slots
    BY <1>7 DEF InitTake, AtSlot, Taking
  <2>2. slot[idx[t]] \ {} = slot[idx[t]] /\ ListNum - 0 = ListNum /\ {} \in SUBSET slot[idx[t]]
        /\ 0 <= Cardinality(slot[idx[t]])
    BY <1>0, <2>1, Finite
  <2>3. list' = [list EXCEPT ![t] = slot[idx[t]] \ {}]
        /\ count' = [count EXCEPT ![t] = ListNum - Cardinality({})]
    BY <1>0, <1>7, <2>2 DEF InitTake
  <2>4. Cardinality({}) \in Nat /\ Cardinality({}) <= Cardinality(slot[idx[t]])
    BY <1>0, <2>2
  <2>5. slot' = EmptiedSlot(idx[t])
    BY <1>7 DEF InitTake
  <2> QED BY <1>4, <2>1, <2>2, <2>3, <2>4, <2>5
<1>8. CASE MallocTake(t)
  <2>1. idx[t] \in Slots /\ slot[idx[t]] \in SUBSET Buffer
    BY <1>8 DEF MallocTake, AtSlot, Taking
  <2>2. PICK got \in SUBSET slot[idx[t]] :
          /\ Cardinality(got) = (IF slot[idx[t]] = {} THEN 0 ELSE 1)
          /\ list' = [list EXCEPT ![t] = slot[idx[t]] \ got]
          /\ count' = [count EXCEPT ![t] = ListNum - Cardinality(got)]
    BY <1>8 DEF MallocTake
  <2>3. Cardinality(got) <= Cardinality(slot[idx[t]]) /\ Cardinality(got) \in Nat
    BY <2>1, Finite, FS_Subset
  <2> QED BY <1>4, <1>8, <2>1, <2>2, <2>3 DEF MallocTake
<1> QED BY <1>5, <1>6, <1>7, <1>8

\* A list that is cut off holds ListNum buffers of the thread's chain and the freed one.
LEMMA CallLengths ==
  ASSUME IndInv, Lengths, NEW t \in Thread,
         Malloc(t) \/ MallocRefill(t) \/ (\E b \in inUse : Free(t, b))
  PROVE  Lengths'
<1> USE DEF IndInv, Shape, Goto
<1>0. ListNum \in Nat \ {0}
  BY PoolAssumption DEF PoolAssumption
<1>1. list[t] \in SUBSET Buffer /\ IsFiniteSet(list[t]) /\ Cardinality(list[t]) \in Nat
      /\ count[t] \in Counts /\ count[t] - Cardinality(list[t]) \in {0, ListNum}
  BY Finite DEF Lengths, ChainsLongEnough
<1>2. CASE Malloc(t)
  <2>1. PICK b \in list[t] : list' = [list EXCEPT ![t] = @ \ {b}]
    BY <1>2 DEF Malloc
  <2>2. b \in list[t]
    BY <2>1
  <2>3. Cardinality(list[t] \ {b}) = IF b \in list[t] THEN Cardinality(list[t]) - 1 ELSE Cardinality(list[t])
    BY <1>1, FS_RemoveElement
  <2>4. Cardinality(list[t] \ {b}) = Cardinality(list[t]) - 1
    BY <2>2, <2>3
  <2> DEFINE L == list[t] \ {b}
  <2>5. list' = [list EXCEPT ![t] = L] /\ count' = [count EXCEPT ![t] = count[t] - 1]
    BY <1>2, <2>1 DEF Malloc
  <2>6. count[t] - 1 \in Counts /\ count[t] - 1 - Cardinality(L) \in {0, ListNum}
    <3>1. Cardinality(L) \in Nat
      BY <1>1, Finite
    <3> QED BY <1>0, <1>1, <2>4, <3>1 DEF Counts
  <2>7. count' \in [Thread -> Counts] /\ ChainsLongEnough'
    BY <2>5, <2>6, Sets
  <2> QED BY <1>2, <2>7 DEF Malloc, Lengths, SlotsWhole
<1>3. CASE MallocRefill(t)
  BY <1>3 DEF MallocRefill, Lengths, SlotsWhole, ChainsLongEnough, Giving
<1>4. ASSUME NEW b \in inUse, Free(t, b)
      PROVE  Lengths'
  <2> DEFINE M == list[t] \cup {b}
  <2>1. b \notin list[t] /\ M \in SUBSET Buffer
    BY <1>1 DEF NothingShared
  <2>2. IsFiniteSet(M) /\ Cardinality(M) = Cardinality(list[t]) + 1
    BY <1>1, <2>1, FS_AddElement
  <2>3. SlotsWhole'
    BY <1>4 DEF Free, Lengths, SlotsWhole
  <2>4. ASSUME list' = [list EXCEPT ![t] = M], count' = [count EXCEPT ![t] = count[t] + 1],
               count[t] + 1 # GiveBackAt, UNCHANGED <<cut, pc>>
        PROVE  Lengths'
    <3>1. count[t] + 1 \in Counts
      BY <1>0, <1>1, <2>4 DEF GiveBackAt, Counts
    <3>2. count' \in [Thread -> Counts] /\ ChainsLongEnough'
      <4>1. count' \in [Thread -> Counts] /\ list'[t] = M /\ count'[t] = count[t] + 1
        BY <2>4, <3>1 DEF Lengths
      <4>2. \A u \in Thread \ {t} : list'[u] = list[u] /\ count'[u] = count[u]
        BY <2>4 DEF Lengths
      <4>3. Cardinality(list'[t]) = Cardinality(M)
        <5> HIDE DEF M
        <5> QED BY <4>1
      <4>4. Cardinality(list'[t]) = Cardinality(list[t]) + 1
        BY <2>2, <4>3
      <4>5. count'[t] - Cardinality(list'[t]) \in {0, ListNum}
        BY <1>0, <1>1, <4>1, <4>4 DEF Counts
      <4> QED BY <4>1, <4>2, <4>5, OwnList
    <3> QED BY <1>4, <2>3, <2>4, <3>2 DEF Free, Lengths
  <2>5. ASSUME NEW s \in FirstList(M), count[t] + 1 = GiveBackAt,
               cut' = [cut EXCEPT ![t] = s], list' = [list EXCEPT ![t] = M \ s],
               count' = [count EXCEPT ![t] = CountAfterCut],
               pc' = [pc EXCEPT ![t] = "freeProbe"]
        PROVE  Lengths'
    <3> DEFINE L == M \ s
    <3>1. s \in SUBSET M /\ Cardinality(s) = ListNum
      BY DEF FirstList
    <3>2. Cardinality(L) = Cardinality(M) - ListNum /\ L \in SUBSET Buffer
      BY <2>1, <3>1, Difference
    <3>3. CountAfterCut \in Counts /\ CountAfterCut - Cardinality(L) \in {0, ListNum}
      BY <1>0, <1>1, <2>2, <2>5, <3>2 DEF CountAfterCut, GiveBackAt, Counts
    <3>4. count' \in [Thread -> Counts] /\ ChainsLongEnough'
      <4> HIDE DEF L
      <4> QED BY <2>5, <3>3, Sets DEF L
    <3>5. \A u \in Thread : IF pc'[u] \in Giving THEN Cardinality(cut'[u]) = ListNum
                                                  ELSE cut'[u] = {}
      BY <2>5, <3>1 DEF Lengths, Giving
    <3> QED BY <2>3, <3>4, <3>5 DEF Lengths
  <2> QED BY <1>4, <2>4, <2>5 DEF Free
<1> QED BY <1>2, <1>3, <1>4

\* A give-back carries its whole list from place to place.
LEMMA GiveLengths ==
  ASSUME IndInv, Lengths, NEW t \in Thread, FreeProbe(t) \/ FreeStore(t)
  PROVE  Lengths'
<1> USE DEF IndInv, Shape, Goto, Giving
<1>1. count' \in [Thread -> Counts] /\ ChainsLongEnough'
  BY DEF FreeProbe, FreeStore, Lengths, ChainsLongEnough
<1>2. SlotsWhole'
  BY DEF FreeProbe, FreeStore, Lengths, SlotsWhole, Stored
<1>3. \A u \in Thread : IF pc'[u] \in Giving THEN Cardinality(cut'[u]) = ListNum
                                              ELSE cut'[u] = {}
  BY DEF FreeProbe, FreeStore, Lengths
<1> QED BY <1>1, <1>2, <1>3 DEF Lengths

LEMMA NextLengths == IndInv /\ Lengths /\ [Next]_vars => Lengths'
<1> SUFFICES ASSUME IndInv, Lengths, [Next]_vars PROVE Lengths'
  OBVIOUS
<1>1. CASE UNCHANGED vars
  BY <1>1 DEF vars, Lengths, ChainsLongEnough, SlotsWhole
<1>2. CASE Next
  BY <1>2, GetLengths, CallLengths, GiveLengths DEF Next
<1> QED BY <1>1, <1>2

-----------------------------------------------------------------------------
(* What a test found, and what may have come of it by the critical section.  *)

Tests ==
    /\ WrongCountOnlyAfterRace
    /\ \A t \in Thread : pc[t] \in Taking \cup {"initProbe", "probe"} => list[t] = {}
    /\ \A t \in Thread : pc[t] \in Taking => slot[idx[t]] # {} \/ t \in lateGet
    /\ \A t \in Thread : pc[t] = "freeStore" => slot[idx[t]] = {} \/ t \in latePut

LEMMA TestsInit == Init => Tests
  BY FS_EmptySet DEF Init, Tests, WrongCountOnlyAfterRace, Taking

\* Only the taker's own test, or the slot it emptied, changes.
LEMMA GetTests ==
  ASSUME IndInv, Lengths, Tests, NEW t \in Thread,
         InitProbe(t) \/ MallocProbe(t) \/ InitTake(t) \/ MallocTake(t)
  PROVE  Tests'
<1> USE DEF IndInv, Shape, Goto
<1>0. Cardinality({}) = 0 /\ ListNum \in Nat \ {0}
  BY FS_EmptySet, PoolAssumption DEF PoolAssumption
<1>1. ASSUME NEW here \in {"initProbe", "probe"}, NEW there \in Taking,
             here = "probe" => there = "take", GetProbe(t, here, there)
      PROVE  Tests'
  <2>1. WrongCountOnlyAfterRace'
    <3>1. CASE idx[t] = PoolNum
      <4>1. list' = [list EXCEPT ![t] = {}] /\ count' = [count EXCEPT ![t] = 0]
            /\ pc' = [pc EXCEPT ![t] = "idle"] /\ lateGet' = lateGet
        BY <1>1, <3>1 DEF GetProbe
      <4>2. count'[t] = Cardinality(list'[t])
        BY <1>0, <4>1 DEF Lengths
      <4>3. \A u \in Thread \ {t} : count'[u] = count[u] /\ list'[u] = list[u] /\ pc'[u] = pc[u]
        BY <4>1 DEF Lengths
      <4> QED BY <4>1, <4>2, <4>3 DEF Tests, WrongCountOnlyAfterRace
    <3>2. CASE idx[t] # PoolNum
      BY <1>1, <3>2 DEF GetProbe, Tests, WrongCountOnlyAfterRace, Taking
    <3> QED BY <3>1, <3>2
  <2>2. \A u \in Thread : pc'[u] \in Taking => slot'[idx'[u]] # {} \/ u \in lateGet'
    BY <1>1 DEF GetProbe, Tests, Taking
  <2>3. \A u \in Thread : pc'[u] = "freeStore" => slot'[idx'[u]] = {} \/ u \in latePut'
    BY <1>1 DEF GetProbe, Tests, Taking
  <2>4. \A u \in Thread : pc'[u] \in Taking \cup {"initProbe", "probe"} => list'[u] = {}
    BY <1>1 DEF GetProbe, Tests, Taking
  <2> QED BY <2>1, <2>2, <2>3, <2>4 DEF Tests
<1>2. CASE InitProbe(t)
  BY <1>1, <1>2 DEF InitProbe, Taking
<1>3. CASE MallocProbe(t)
  BY <1>1, <1>3 DEF MallocProbe, Taking
<1>4. CASE InitTake(t) \/ MallocTake(t)
  <2>1. PICK L \in SUBSET slot[idx[t]], n \in Nat :
          /\ list' = [list EXCEPT ![t] = L] /\ count' = [count EXCEPT ![t] = n]
          /\ n = Cardinality(L) \/ t \in lateGet
    <3>1. pc[t] \in Taking /\ idx[t] \in Slots /\ slot[idx[t]] \in SUBSET Buffer
          /\ Cardinality(slot[idx[t]]) \in {0, ListNum}
      BY <1>4 DEF InitTake, MallocTake, Taking, AtSlot, Lengths, SlotsWhole
    <3>2. Cardinality(slot[idx[t]]) = ListNum \/ t \in lateGet
      BY <3>1, FS_EmptySet, Finite DEF Tests
    <3>3. CASE InitTake(t)
      BY <1>0, <3>2, <3>3 DEF InitTake
    <3>4. CASE MallocTake(t)
      <4>1. PICK got \in SUBSET slot[idx[t]] :
              /\ Cardinality(got) = (IF slot[idx[t]] = {} THEN 0 ELSE 1)
              /\ list' = [list EXCEPT ![t] = slot[idx[t]] \ got]
              /\ count' = [count EXCEPT ![t] = ListNum - Cardinality(got)]
        BY <3>4 DEF MallocTake
      <4>2. Cardinality(slot[idx[t]] \ got) = Cardinality(slot[idx[t]]) - Cardinality(got)
        BY <3>1, Difference
      <4>3. ListNum - Cardinality(got) \in Nat
        BY <1>0, <4>1
      <4>4. ListNum - Cardinality(got) = Cardinality(slot[idx[t]] \ got) \/ t \in lateGet
        BY <3>2, <4>2
      <4> QED BY <4>1, <4>3, <4>4
    <3> QED BY <1>4, <3>3, <3>4
  <2>2. /\ pc[t] \in Taking /\ idx[t] \in Slots /\ pc' = [pc EXCEPT ![t] = "idle"]
        /\ slot' = [slot EXCEPT ![idx[t]] = {}] /\ idx' = idx /\ latePut' = latePut
        /\ lateGet' = lateGet \cup Outrun(t, idx[t], Taking)
    BY <1>4 DEF InitTake, MallocTake, EmptiedSlot, Taking, AtSlot
  <2>3. WrongCountOnlyAfterRace'
    <3>1. count'[t] = Cardinality(list'[t]) \/ t \in lateGet'
      BY <2>1, <2>2 DEF Lengths
    <3>2. \A u \in Thread \ {t} : /\ count'[u] = count[u] /\ list'[u] = list[u]
                                  /\ pc'[u] = pc[u] /\ (u \in lateGet => u \in lateGet')
      BY <2>1, <2>2 DEF Lengths
    <3> QED BY <3>1, <3>2 DEF Tests, WrongCountOnlyAfterRace
  <2>4. \A u \in Thread : pc'[u] \in Taking => slot'[idx'[u]] # {} \/ u \in lateGet'
    BY <2>2 DEF Tests, Outrun, Taking
  <2>5. \A u \in Thread : pc'[u] = "freeStore" => slot'[idx'[u]] = {} \/ u \in latePut'
    BY <2>2 DEF Tests, AtSlot, Filling
  <2>6. \A u \in Thread : pc'[u] \in Taking \cup {"initProbe", "probe"} => list'[u] = {}
    BY <2>1, <2>2 DEF Tests, Taking
  <2> QED BY <2>3, <2>4, <2>5, <2>6 DEF Tests
<1> QED BY <1>2, <1>3, <1>4

\* An allocation and a free change the chain and its count alike.
LEMMA CallTests ==
  ASSUME IndInv, Lengths, Tests, NEW t \in Thread,
         Malloc(t) \/ MallocRefill(t) \/ (\E b \in inUse : Free(t, b))
  PROVE  Tests'
<1> USE DEF IndInv, Shape, Goto
<1>0. ListNum \in Nat \ {0}
  BY PoolAssumption DEF PoolAssumption
<1>1. list[t] \in SUBSET Buffer /\ IsFiniteSet(list[t]) /\ Cardinality(list[t]) \in Nat
      /\ count[t] \in Nat
  BY <1>0, Finite DEF Lengths, Counts
<1>2. /\ pc[t] = "idle" /\ slot' = slot /\ latePut' = latePut
      /\ \E q \in {"idle", "probe", "freeProbe"} : pc' = [pc EXCEPT ![t] = q]
      /\ \A u \in Thread \ {t} : /\ idx'[u] = idx[u] /\ count'[u] = count[u] /\ list'[u] = list[u]
                                  /\ pc'[u] = pc[u] /\ (u \in lateGet => u \in lateGet')
  <2>1. CASE Malloc(t)
    BY <2>1 DEF Malloc, Lengths
  <2>2. CASE MallocRefill(t)
    BY <2>2 DEF MallocRefill, Lengths
  <2>3. CASE \E b \in inUse : Free(t, b)
    BY <2>3 DEF Free, Lengths
  <2> QED BY <2>1, <2>2, <2>3
<1>3. /\ \A u \in Thread : pc'[u] \in Taking => slot'[idx'[u]] # {} \/ u \in lateGet'
      /\ \A u \in Thread : pc'[u] = "freeStore" => slot'[idx'[u]] = {} \/ u \in latePut'
  <2>1. pc'[t] \notin Taking /\ pc'[t] # "freeStore"
    BY <1>2 DEF Taking
  <2> QED BY <1>2, <2>1 DEF Tests
<1>4. count'[t] = Cardinality(list'[t]) \/ t \in lateGet' \/ pc'[t] = "probe"
  <2>1. count[t] = Cardinality(list[t]) \/ t \in lateGet
    BY <1>2 DEF Tests, WrongCountOnlyAfterRace
  <2>2. CASE Malloc(t)
    <3>1. PICK b \in list[t] : list' = [list EXCEPT ![t] = @ \ {b}]
      BY <2>2 DEF Malloc
    <3>2. b \in list[t]
      BY <3>1
    <3>3. Cardinality(list[t] \ {b}) = Cardinality(list[t]) - 1
      BY <1>1, <3>2, FS_RemoveElement
    <3>4. list'[t] = list[t] \ {b} /\ count'[t] = count[t] - 1 /\ lateGet' = lateGet
      BY <2>2, <3>1 DEF Malloc, Lengths
    <3> QED BY <2>1, <3>3, <3>4
  <2>3. CASE MallocRefill(t)
    BY <2>3 DEF MallocRefill
  <2>4. ASSUME NEW b \in inUse, Free(t, b)
        PROVE  count'[t] = Cardinality(list'[t]) \/ t \in lateGet'
    <3> DEFINE M == list[t] \cup {b}
    <3>1. b \notin list[t] /\ M \in SUBSET Buffer
      BY <1>1 DEF NothingShared
    <3>2. Cardinality(M) = Cardinality(list[t]) + 1
      BY <1>1, <3>1, FS_AddElement
    <3>3. lateGet' = lateGet
      BY <2>4 DEF Free
    <3>4. CASE list' = [list EXCEPT ![t] = M] /\ count' = [count EXCEPT ![t] = @ + 1]
      <4>1. list'[t] = M /\ count'[t] = count[t] + 1
        BY <3>4 DEF Lengths
      <4>2. Cardinality(list'[t]) = Cardinality(M)
        BY <4>1
      <4> HIDE DEF M
      <4> QED BY <2>1, <3>2, <3>3, <4>1, <4>2
    <3>5. ASSUME NEW s \in FirstList(M), count[t] + 1 = GiveBackAt,
                 list' = [list EXCEPT ![t] = M \ s],
                 count' = [count EXCEPT ![t] = CountAfterCut]
          PROVE  count'[t] = Cardinality(list'[t]) \/ t \in lateGet'
      <4>1. s \in SUBSET M /\ Cardinality(s) = ListNum
        BY DEF FirstList
      <4>2. Cardinality(M \ s) = Cardinality(M) - ListNum
        BY <3>1, <4>1, Difference
      <4>3. list'[t] = M \ s /\ count'[t] = CountAfterCut
        BY <3>5 DEF Lengths
      <4>4. Cardinality(list'[t]) = Cardinality(M) - ListNum
        BY <4>2, <4>3
      <4> HIDE DEF M
      <4> QED BY <1>0, <1>1, <2>1, <3>2, <3>3, <3>5, <4>3, <4>4 DEF CountAfterCut, GiveBackAt
    <3> QED BY <2>4, <3>4, <3>5 DEF Free
  <2> QED BY <2>2, <2>3, <2>4
<1>5. WrongCountOnlyAfterRace'
  BY <1>2, <1>4 DEF Tests, WrongCountOnlyAfterRace
<1>6. pc'[t] \in Taking \cup {"initProbe", "probe"} => list'[t] = {}
  BY DEF Malloc, MallocRefill, Free, NoBuffer, Taking
<1>7. \A u \in Thread : pc'[u] \in Taking \cup {"initProbe", "probe"} => list'[u] = {}
  BY <1>2, <1>6 DEF Tests
<1> QED BY <1>3, <1>5, <1>7 DEF Tests

\* A give-back fills the slot of others' tests, and they are then late.
LEMMA GiveTests ==
  ASSUME IndInv, Lengths, Tests, NEW t \in Thread, FreeProbe(t) \/ FreeStore(t)
  PROVE  Tests'
<1> USE DEF IndInv, Shape, Goto
<1>0. ListNum \in Nat \ {0}
  BY PoolAssumption DEF PoolAssumption
<1>1. /\ WrongCountOnlyAfterRace'
      /\ \A u \in Thread : pc'[u] \in Taking \cup {"initProbe", "probe"} => list'[u] = {}
  BY DEF FreeProbe, FreeStore, Tests, WrongCountOnlyAfterRace, Taking
<1>2. CASE FreeProbe(t)
  <2>1. \A u \in Thread : pc'[u] \in Taking => slot'[idx'[u]] # {} \/ u \in lateGet'
    BY <1>2 DEF FreeProbe, Tests, Taking
  <2>2. \A u \in Thread : pc'[u] = "freeStore" => slot'[idx'[u]] = {} \/ u \in latePut'
    BY <1>2 DEF FreeProbe, Tests, EmptySlot
  <2> QED BY <1>1, <2>1, <2>2 DEF Tests
<1>3. CASE FreeStore(t)
  <2>1. cut[t] # {}
    BY <1>0, <1>3, FS_EmptySet DEF FreeStore, Lengths, Giving
  <2>2. \A u \in Thread : pc'[u] \in Taking => slot'[idx'[u]] # {} \/ u \in lateGet'
    BY <1>3, <2>1 DEF FreeStore, Stored, Tests, Taking, AtSlot
  <2>3. \A u \in Thread : pc'[u] = "freeStore" => slot'[idx'[u]] = {} \/ u \in latePut'
    BY <1>3 DEF FreeStore, Tests, Outrun, Filling, AtSlot
  <2> QED BY <1>1, <2>2, <2>3 DEF Tests
<1> QED BY <1>2, <1>3

LEMMA NextTests == IndInv /\ Lengths /\ Tests /\ [Next]_vars => Tests'
<1> SUFFICES ASSUME IndInv, Lengths, Tests, [Next]_vars PROVE Tests'
  OBVIOUS
<1>1. CASE UNCHANGED vars
  BY <1>1 DEF vars, Tests, WrongCountOnlyAfterRace
<1>2. CASE Next
  BY <1>2, GetTests, CallTests, GiveTests DEF Next
<1> QED BY <1>1, <1>2

-----------------------------------------------------------------------------
(* A give-back finds an empty slot.  From any index on there are at least as *)
(* many slots as there are full slots and threads giving back: a thread that *)
(* goes past a full slot joins the ones further on by leaving that slot      *)
(* behind, and a store replaces a thread by a slot.                          *)

FullFrom(k) == {i \in Slots : i >= k /\ slot[i] # {}}
GivingFrom(k) == {t \in Thread : pc[t] \in Giving /\ idx[t] >= k}

Frontier ==
    \A k \in 0 .. PoolNum : Cardinality(FullFrom(k)) + Cardinality(GivingFrom(k)) <= PoolNum - k

\* Disjoint lists of ListNum buffers hold that many times their number.
LEMMA Family ==
  ASSUME NEW H, IsFiniteSet(H), NEW L, NEW U \in SUBSET Buffer,
         \A h \in H : L[h] \in SUBSET U /\ Cardinality(L[h]) = ListNum,
         \A g, h \in H : g # h => L[g] \cap L[h] = {}
  PROVE  Cardinality(H) * ListNum <= Cardinality(U)
<1>1. ListNum \in Nat
  BY PoolAssumption DEF PoolAssumption
<1> DEFINE Index == 1 .. ListNum
           Names(h) == Bijection(Index, L[h])
           name == [h \in H |-> CHOOSE f : f \in Names(h)]
           Pairs == H \X Index
           named == [x \in Pairs |-> name[x[1]][x[2]]]
<1>2. \A h \in H : name[h] \in Names(h)
  <2> TAKE h \in H
  <2>1. IsFiniteSet(L[h]) /\ Cardinality(L[h]) = ListNum
    BY Finite
  <2>2. ExistsBijection(Index, L[h])
    BY <2>1, FS_CardinalityType
  <2> QED BY <2>2 DEF ExistsBijection
<1>3. \A h \in H : \A k, l \in Index :
        name[h][k] \in L[h] /\ (name[h][k] = name[h][l] => k = l)
  <2> HIDE DEF name, Index
  <2> TAKE h \in H
  <2> DEFINE f == name[h]
  <2>1. f \in Injection(Index, L[h])
    BY <1>2 DEF Bijection
  <2> HIDE DEF f
  <2>2. f \in [Index -> L[h]] /\ \A k, l \in Index : f[k] = f[l] => k = l
    BY <2>1 DEF Injection, IsInjective
  <2>3. \A k, l \in Index : f[k] \in L[h] /\ (f[k] = f[l] => k = l)
    BY <2>2
  <2> QED BY <2>3 DEF f
<1>4. named \in Injection(Pairs, U)
  <2> HIDE DEF name, Index
  <2>1. named \in [Pairs -> U]
    BY <1>3
  <2>2. ASSUME NEW x \in Pairs, NEW y \in Pairs, named[x] = named[y]
        PROVE  x = y
    <3>1. name[x[1]][x[2]] = name[y[1]][y[2]]
      BY <2>2
    <3>2. x[1] = y[1]
      BY <1>3, <3>1
    <3>3. x[2] = y[2]
      BY <1>3, <3>1, <3>2
    <3> QED BY <3>2, <3>3
  <2>3. IsInjective(named)
    <3> HIDE DEF Pairs
    <3>1. DOMAIN named = Pairs
      OBVIOUS
    <3> QED BY <2>2, <3>1 DEF IsInjective
  <2> QED BY <2>1, <2>3 DEF Injection
<1>5. Cardinality(Pairs) = Cardinality(H) * ListNum
  <2>1. IsFiniteSet(Index) /\ Cardinality(Index) = ListNum
    <3>1. Cardinality(Index) = IF 1 > ListNum THEN 0 ELSE ListNum - 1 + 1
      BY <1>1, FS_Interval
    <3>2. IsFiniteSet(Index)
      BY <1>1, FS_Interval
    <3> QED BY <1>1, <3>1, <3>2
  <2> HIDE DEF Index
  <2> QED BY <2>1, FS_Product
<1>6. Cardinality(Pairs) <= Cardinality(U)
  <2> HIDE DEF Pairs, named
  <2> QED BY <1>4, FS_Injection, Finite
<1> QED BY <1>5, <1>6

\* As many lists as the pool has slots use up every buffer.
LEMMA Holders ==
  ASSUME NEW F \in SUBSET Slots, NEW G \in SUBSET Thread, NEW s, NEW c,
         \A i \in F : s[i] \in SUBSET Buffer /\ Cardinality(s[i]) = ListNum,
         \A t \in G : c[t] \in SUBSET Buffer /\ Cardinality(c[t]) = ListNum,
         \A i, j \in F : i # j => s[i] \cap s[j] = {},
         \A t, u \in G : t # u => c[t] \cap c[u] = {},
         \A i \in F : \A t \in G : s[i] \cap c[t] = {}
  PROVE  /\ IsFiniteSet(F) /\ IsFiniteSet(G) /\ Cardinality(F) \in Nat /\ Cardinality(G) \in Nat
         /\ Cardinality(F) + Cardinality(G) <= PoolNum
<1> DEFINE US == UNION {s[i] : i \in F}
           UC == UNION {c[t] : t \in G}
<1>1. IsFiniteSet(F) /\ IsFiniteSet(G) /\ Cardinality(F) \in Nat /\ Cardinality(G) \in Nat
  <2>1. IsFiniteSet(Slots) /\ IsFiniteSet(Thread)
    BY PoolAssumption, FS_Interval DEF PoolAssumption, Slots
  <2> QED BY <2>1, FS_Subset, FS_CardinalityType
<1>2. US \in SUBSET Buffer /\ UC \in SUBSET Buffer /\ US \cap UC = {}
  OBVIOUS
<1>3. Cardinality(F) * ListNum <= Cardinality(US)
  <2>1. \A i \in F : s[i] \in SUBSET US /\ Cardinality(s[i]) = ListNum
    OBVIOUS
  <2> HIDE DEF US
  <2> QED BY <1>1, <1>2, <2>1, Family
<1>4. Cardinality(G) * ListNum <= Cardinality(UC)
  <2>1. \A t \in G : c[t] \in SUBSET UC /\ Cardinality(c[t]) = ListNum
    OBVIOUS
  <2> HIDE DEF UC
  <2> QED BY <1>1, <1>2, <2>1, Family
<1>5. Cardinality(US) + Cardinality(UC) <= ListNum * PoolNum
  <2> HIDE DEF US, UC
  <2>1. /\ IsFiniteSet(US) /\ Cardinality(US) \in Nat
        /\ IsFiniteSet(UC) /\ Cardinality(UC) \in Nat
    BY <1>2, Finite
  <2>2. Cardinality(US \cup UC) = Cardinality(US) + Cardinality(UC) - Cardinality(US \cap UC)
    BY <2>1, FS_Union
  <2>3. Cardinality(US \cap UC) = 0
    BY <1>2, FS_EmptySet
  <2>4. US \cup UC \in SUBSET Buffer /\ IsFiniteSet(Buffer)
    BY <1>2, PoolAssumption DEF PoolAssumption
  <2>5. Cardinality(US \cup UC) <= Cardinality(Buffer)
    BY <2>4, FS_Subset
  <2> QED BY <2>1, <2>2, <2>3, <2>5, PoolAssumption DEF PoolAssumption
<1>6. ASSUME NEW f \in Nat, NEW g \in Nat, NEW n \in Nat \ {0}, NEW p \in Nat,
             f * n + g * n <= n * p
      PROVE  f + g <= p
  <2>1. SUFFICES ASSUME f + g >= p + 1 PROVE FALSE
    OBVIOUS
  <2>2. (f + g) * n >= (p + 1) * n
    BY <2>1
  <2>3. (f + g) * n = f * n + g * n /\ (p + 1) * n = n * p + n
    OBVIOUS
  <2> QED BY <1>6, <2>2, <2>3
<1>7. /\ Cardinality(US) \in Nat /\ Cardinality(UC) \in Nat
      /\ ListNum \in Nat \ {0} /\ PoolNum \in Nat
  <2> HIDE DEF US, UC
  <2> QED BY <1>2, Finite, PoolAssumption DEF PoolAssumption
<1>8. Cardinality(F) * ListNum + Cardinality(G) * ListNum <= ListNum * PoolNum
  <2> HIDE DEF US, UC
  <2>1. Cardinality(F) * ListNum \in Nat /\ Cardinality(G) * ListNum \in Nat /\ ListNum * PoolNum \in Nat
    BY <1>1, <1>7
  <2> QED BY <1>3, <1>4, <1>5, <1>7, <2>1
<1>9. Cardinality(F) + Cardinality(G) <= PoolNum
  BY <1>1, <1>6, <1>7, <1>8
<1> QED BY <1>1, <1>9

\* The sets that are counted are finite, so counting them makes sense.
LEMMA Countable ==
  ASSUME NEW F \in SUBSET Slots, NEW G \in SUBSET Thread
  PROVE  /\ IsFiniteSet(F) /\ Cardinality(F) \in Nat
         /\ IsFiniteSet(G) /\ Cardinality(G) \in Nat
<1>1. IsFiniteSet(Slots) /\ IsFiniteSet(Thread)
  BY PoolAssumption, FS_Interval DEF PoolAssumption, Slots
<1> QED BY <1>1, FS_Subset, FS_CardinalityType

LEMMA Fewer ==
  ASSUME NEW S, NEW T \in SUBSET S, IsFiniteSet(S)
  PROVE  Cardinality(T) <= Cardinality(S)
BY FS_Subset

LEMMA FrontierInit == Init => Frontier
<1> SUFFICES ASSUME Init, NEW k \in 0 .. PoolNum
             PROVE  Cardinality(FullFrom(k)) + Cardinality(GivingFrom(k)) <= PoolNum - k
  BY DEF Frontier
<1>1. GivingFrom(k) = {} /\ Cardinality({}) = 0
  BY FS_EmptySet DEF GivingFrom, Init, Giving
<1>2. PoolNum \in Nat
  BY PoolAssumption DEF PoolAssumption
<1>3. FullFrom(k) \in SUBSET (k .. PoolNum - 1) /\ IsFiniteSet(k .. PoolNum - 1)
      /\ Cardinality(k .. PoolNum - 1) <= PoolNum - k
  BY <1>2, FS_Interval DEF FullFrom, Slots
<1>4. Cardinality(FullFrom(k)) <= PoolNum - k /\ Cardinality(FullFrom(k)) \in Nat
  <2>1. Cardinality(FullFrom(k)) \in Nat /\ Cardinality(k .. PoolNum - 1) \in Nat
    BY <1>3, FS_Subset, FS_CardinalityType
  <2>2. Cardinality(FullFrom(k)) <= Cardinality(k .. PoolNum - 1)
    BY <1>3, FS_Subset
  <2> QED BY <1>2, <1>3, <2>1, <2>2
<1> QED BY <1>1, <1>2, <1>4

\* Full slots and threads giving back never grow in number.
LEMMA FrontierKept ==
  ASSUME Frontier, NEW k \in 0 .. PoolNum,
         FullFrom(k)' \subseteq FullFrom(k), GivingFrom(k)' \subseteq GivingFrom(k)
  PROVE  Cardinality(FullFrom(k)') + Cardinality(GivingFrom(k)') <= PoolNum - k
<1>1. FullFrom(k) \in SUBSET Slots /\ GivingFrom(k) \in SUBSET Thread
      /\ FullFrom(k)' \in SUBSET Slots /\ GivingFrom(k)' \in SUBSET Thread
  BY DEF FullFrom, GivingFrom
<1> DEFINE F == FullFrom(k)
           G == GivingFrom(k)
           F2 == FullFrom(k)'
           G2 == GivingFrom(k)'
<1> HIDE DEF F, G, F2, G2
<1>2. /\ Cardinality(F2) <= Cardinality(F) /\ Cardinality(G2) <= Cardinality(G)
      /\ Cardinality(F2) \in Nat /\ Cardinality(F) \in Nat
      /\ Cardinality(G2) \in Nat /\ Cardinality(G) \in Nat
  BY <1>1, Countable, Fewer DEF F, G, F2, G2
<1>3. Cardinality(F) + Cardinality(G) <= PoolNum - k
  BY DEF Frontier, F, G
<1>4. Cardinality(F2) + Cardinality(G2) <= PoolNum - k
  BY <1>2, <1>3, PoolAssumption DEF PoolAssumption
<1> QED BY <1>4 DEF F2, G2

\* A thread that cuts a list off joins at index 0, where all the slots lie ahead.
LEMMA FreeFrontier ==
  ASSUME IndInv, Lengths, Frontier, NEW t \in Thread, NEW b \in inUse, Free(t, b),
         IndInv', Lengths'
  PROVE  Frontier'
<1> USE DEF IndInv, Shape, Goto
<1>1. slot' = slot /\ pc[t] = "idle" /\ PoolNum \in Nat /\ ListNum \in Nat \ {0}
  BY PoolAssumption DEF Free, PoolAssumption
<1>2. \A k \in 0 .. PoolNum : FullFrom(k)' = FullFrom(k)
  BY <1>1 DEF FullFrom
<1>3. SUFFICES ASSUME NEW k \in 0 .. PoolNum
               PROVE  Cardinality(FullFrom(k)') + Cardinality(GivingFrom(k)') <= PoolNum - k
  BY DEF Frontier
<1>4. CASE UNCHANGED <<pc, idx>>
  <2>1. GivingFrom(k)' = GivingFrom(k)
    BY <1>4 DEF GivingFrom
  <2> QED BY <1>2, <2>1, FrontierKept
<1>5. CASE pc' = [pc EXCEPT ![t] = "freeProbe"] /\ idx' = [idx EXCEPT ![t] = 0] /\ k # 0
  <2>1. GivingFrom(k)' = GivingFrom(k)
    BY <1>1, <1>5 DEF GivingFrom, Giving
  <2> QED BY <1>2, <2>1, FrontierKept
<1>6. CASE k = 0
  <2> DEFINE F == FullFrom(k)'
             G == GivingFrom(k)'
  <2>1. F \in SUBSET Slots /\ G \in SUBSET Thread
    BY DEF FullFrom, GivingFrom
  <2>2. \A i \in F : slot'[i] \in SUBSET Buffer /\ Cardinality(slot'[i]) = ListNum
    BY FS_EmptySet, Finite DEF FullFrom, Lengths, SlotsWhole
  <2>3. \A u \in G : cut'[u] \in SUBSET Buffer /\ Cardinality(cut'[u]) = ListNum
    BY DEF GivingFrom, Lengths
  <2>4. /\ \A i, j \in F : i # j => slot'[i] \cap slot'[j] = {}
        /\ \A u, v \in G : u # v => cut'[u] \cap cut'[v] = {}
        /\ \A i \in F : \A u \in G : slot'[i] \cap cut'[u] = {}
    <3>1. \A i \in Slots : \A j \in Slots \ {i} : slot'[i] \cap slot'[j] = {}
      BY DEF NothingShared
    <3>2. \A u \in Thread : \A v \in Thread \ {u} : cut'[u] \cap cut'[v] = {}
      BY DEF NothingShared
    <3>3. \A i \in Slots : \A u \in Thread : slot'[i] \cap cut'[u] = {}
      BY DEF NothingShared
    <3> HIDE DEF F, G
    <3> QED BY <2>1, <3>1, <3>2, <3>3
  <2>5. Cardinality(F) + Cardinality(G) <= PoolNum
    <3> HIDE DEF F, G
    <3> QED BY <2>1, <2>2, <2>3, <2>4, Holders
  <2> QED BY <1>1, <1>6, <2>5
<1> QED BY <1>4, <1>5, <1>6 DEF Free

\* A thread goes on only past a full slot, which it leaves behind, and so it never
\* comes to the end of the pool.
LEMMA ProbeFrontier ==
  ASSUME IndInv, Lengths, Frontier, NEW t \in Thread, FreeProbe(t)
  PROVE  Frontier' /\ idx[t] # PoolNum
<1> USE DEF IndInv, Shape, Goto
<1>1. PoolNum \in Nat /\ pc[t] = "freeProbe" /\ idx[t] \in 0 .. PoolNum /\ slot' = slot
  BY PoolAssumption DEF PoolAssumption, FreeProbe
<1>2. \A k \in 0 .. PoolNum :
        /\ FullFrom(k) \in SUBSET Slots /\ IsFiniteSet(FullFrom(k)) /\ Cardinality(FullFrom(k)) \in Nat
        /\ GivingFrom(k) \in SUBSET Thread /\ IsFiniteSet(GivingFrom(k))
        /\ Cardinality(GivingFrom(k)) \in Nat
  <2> TAKE k \in 0 .. PoolNum
  <2>1. FullFrom(k) \in SUBSET Slots /\ GivingFrom(k) \in SUBSET Thread
    BY DEF FullFrom, GivingFrom
  <2> QED BY <2>1, Countable
<1>3. t \in GivingFrom(idx[t])
  BY <1>1 DEF GivingFrom, Giving
<1>4. idx[t] # PoolNum
  <2>1. SUFFICES ASSUME idx[t] = PoolNum PROVE FALSE
    OBVIOUS
  <2>2. Cardinality(GivingFrom(PoolNum)) = 0
    <3>1. PoolNum \in 0 .. PoolNum
      BY <1>1
    <3>2. Cardinality(FullFrom(PoolNum)) \in Nat /\ Cardinality(GivingFrom(PoolNum)) \in Nat
      BY <1>2, <3>1
    <3>3. Cardinality(FullFrom(PoolNum)) + Cardinality(GivingFrom(PoolNum)) <= PoolNum - PoolNum
      BY <3>1 DEF Frontier
    <3> QED BY <1>1, <3>2, <3>3
  <2>3. GivingFrom(PoolNum) = {}
    BY <1>1, <1>2, <2>2, FS_EmptySet
  <2> QED BY <1>3, <2>1, <2>3
<1>5. \A k \in 0 .. PoolNum : FullFrom(k)' = FullFrom(k)
  BY <1>1 DEF FullFrom
<1>6. SUFFICES ASSUME NEW k \in 0 .. PoolNum
               PROVE  Cardinality(FullFrom(k)') + Cardinality(GivingFrom(k)') <= PoolNum - k
  BY <1>4 DEF Frontier
<1>7. CASE EmptySlot(idx[t])
  <2>1. GivingFrom(k)' = GivingFrom(k)
    BY <1>1, <1>4, <1>7 DEF FreeProbe, GivingFrom, Giving
  <2> QED BY <1>5, <2>1, FrontierKept
<1>8. CASE ~EmptySlot(idx[t]) /\ k # idx[t] + 1
  <2>1. idx' = [idx EXCEPT ![t] = @ + 1] /\ pc' = pc
    BY <1>4, <1>8 DEF FreeProbe
  <2>2. GivingFrom(k)' = GivingFrom(k)
    BY <1>1, <1>8, <2>1 DEF GivingFrom
  <2> QED BY <1>5, <2>2, FrontierKept
<1>9. CASE ~EmptySlot(idx[t]) /\ k = idx[t] + 1
  <2>1. idx' = [idx EXCEPT ![t] = @ + 1] /\ pc' = pc
    BY <1>4, <1>9 DEF FreeProbe
  <2>2. idx[t] \in Slots /\ idx[t] \in 0 .. PoolNum /\ slot[idx[t]] # {}
    BY <1>1, <1>4, <1>9 DEF Slots, EmptySlot
  <2>3. FullFrom(idx[t]) = FullFrom(k) \cup {idx[t]} /\ idx[t] \notin FullFrom(k)
    BY <1>1, <1>9, <2>2 DEF FullFrom, Slots
  <2>4. GivingFrom(k)' = GivingFrom(k) \cup {t} /\ t \notin GivingFrom(k)
        /\ GivingFrom(k) \cup {t} \subseteq GivingFrom(idx[t])
    BY <1>1, <1>9, <2>1 DEF GivingFrom, Giving
  <2>5. Cardinality(FullFrom(idx[t])) = Cardinality(FullFrom(k)) + 1
    BY <1>2, <2>3, FS_AddElement
  <2>6. Cardinality(GivingFrom(k)') <= Cardinality(GivingFrom(idx[t]))
    BY <1>2, <2>2, <2>4, Fewer
  <2>7. Cardinality(GivingFrom(k)') \in Nat
    BY <1>2, <2>4, FS_AddElement, FS_CardinalityType
  <2>8. Cardinality(FullFrom(idx[t])) + Cardinality(GivingFrom(idx[t])) <= PoolNum - idx[t]
    BY <2>2 DEF Frontier
  <2>9. Cardinality(FullFrom(k)') = Cardinality(FullFrom(k))
    BY <1>5
  <2> QED BY <1>1, <1>2, <1>9, <2>2, <2>5, <2>6, <2>7, <2>8, <2>9
<1> QED BY <1>7, <1>8, <1>9

\* A store puts a full slot in the place of a thread.
LEMMA StoreFrontier ==
  ASSUME IndInv, Lengths, Frontier, NEW t \in Thread, FreeStore(t)
  PROVE  Frontier'
<1> USE DEF IndInv, Shape, Goto
<1>1. PoolNum \in Nat /\ pc[t] = "freeStore" /\ idx[t] \in Slots /\ idx[t] \in 0 .. PoolNum
      /\ slot' = [slot EXCEPT ![idx[t]] = cut[t]] /\ pc' = [pc EXCEPT ![t] = "idle"] /\ idx' = idx
  BY PoolAssumption DEF PoolAssumption, FreeStore, Stored, AtSlot, Filling
<1>2. SUFFICES ASSUME NEW k \in 0 .. PoolNum
               PROVE  Cardinality(FullFrom(k)') + Cardinality(GivingFrom(k)') <= PoolNum - k
  BY DEF Frontier
<1>3. CASE k > idx[t]
  <2>1. FullFrom(k)' = FullFrom(k)
    BY <1>1, <1>3 DEF FullFrom, Slots
  <2>2. GivingFrom(k)' \subseteq GivingFrom(k)
    BY <1>1 DEF GivingFrom, Giving
  <2> QED BY <2>1, <2>2, FrontierKept
<1>4. CASE k <= idx[t]
  <2>1. /\ FullFrom(k) \in SUBSET Slots /\ IsFiniteSet(FullFrom(k)) /\ Cardinality(FullFrom(k)) \in Nat
        /\ GivingFrom(k) \in SUBSET Thread /\ IsFiniteSet(GivingFrom(k))
        /\ Cardinality(GivingFrom(k)) \in Nat
    <3>1. FullFrom(k) \in SUBSET Slots /\ GivingFrom(k) \in SUBSET Thread
      BY DEF FullFrom, GivingFrom
    <3> QED BY <3>1, Countable
  <2>2. FullFrom(k)' \subseteq FullFrom(k) \cup {idx[t]}
    BY <1>1 DEF FullFrom
  <2>3. GivingFrom(k)' = GivingFrom(k) \ {t} /\ t \in GivingFrom(k)
    BY <1>1, <1>4 DEF GivingFrom, Giving
  <2>4. Cardinality(GivingFrom(k)') = Cardinality(GivingFrom(k)) - 1
    <3> DEFINE G == GivingFrom(k)
    <3>1. IsFiniteSet(G) /\ t \in G
      BY <2>1, <2>3
    <3> HIDE DEF G
    <3>2. Cardinality(G \ {t}) = Cardinality(G) - 1
      BY <3>1, FS_RemoveElement
    <3> QED BY <2>3, <3>2 DEF G
  <2>5. /\ IsFiniteSet(FullFrom(k) \cup {idx[t]})
        /\ Cardinality(FullFrom(k) \cup {idx[t]}) \in Nat
        /\ Cardinality(FullFrom(k) \cup {idx[t]}) <= Cardinality(FullFrom(k)) + 1
    <3>1. /\ IsFiniteSet(FullFrom(k) \cup {idx[t]})
          /\ Cardinality(FullFrom(k) \cup {idx[t]}) =
               IF idx[t] \in FullFrom(k) THEN Cardinality(FullFrom(k)) ELSE Cardinality(FullFrom(k)) + 1
      BY <2>1, FS_AddElement
    <3>2. Cardinality(FullFrom(k) \cup {idx[t]}) \in Nat
      BY <3>1, FS_CardinalityType
    <3> QED BY <2>1, <3>1, <3>2
  <2>6. Cardinality(FullFrom(k)') <= Cardinality(FullFrom(k) \cup {idx[t]})
    BY <2>2, <2>5, Fewer
  <2>7. Cardinality(FullFrom(k)') \in Nat
    BY <2>2, <2>5, FS_Subset, FS_CardinalityType
  <2>8. Cardinality(FullFrom(k)) + Cardinality(GivingFrom(k)) <= PoolNum - k
    BY DEF Frontier
  <2> QED BY <1>1, <2>1, <2>4, <2>5, <2>6, <2>7, <2>8
<1> QED BY <1>1, <1>3, <1>4

\* Threads that look for a list at most empty a slot.
LEMMA OtherFrontier ==
  ASSUME IndInv, Lengths, Frontier, NEW t \in Thread,
         \/ InitProbe(t) \/ MallocProbe(t) \/ InitTake(t) \/ MallocTake(t)
         \/ Malloc(t) \/ MallocRefill(t)
  PROVE  Frontier'
<1> USE DEF IndInv, Shape, Goto
<1>1. /\ pc[t] \notin Giving /\ pc'[t] \notin Giving
      /\ \A u \in Thread \ {t} : pc'[u] = pc[u] /\ idx'[u] = idx[u]
      /\ \A i \in Slots : slot'[i] \subseteq slot[i]
  <2>1. CASE InitProbe(t) \/ MallocProbe(t)
    BY <2>1 DEF InitProbe, MallocProbe, GetProbe, Giving
  <2>2. CASE InitTake(t) \/ MallocTake(t)
    BY <2>2 DEF InitTake, MallocTake, EmptiedSlot, Giving
  <2>3. CASE Malloc(t) \/ MallocRefill(t)
    BY <2>3 DEF Malloc, MallocRefill, Giving
  <2> QED BY <2>1, <2>2, <2>3
<1>2. \A k \in 0 .. PoolNum : FullFrom(k)' \subseteq FullFrom(k) /\ GivingFrom(k)' \subseteq GivingFrom(k)
  BY <1>1 DEF FullFrom, GivingFrom
<1> QED BY <1>2, FrontierKept DEF Frontier

Inv == IndInv /\ Lengths /\ Tests /\ Frontier

LEMMA NextInv == Inv /\ [Next]_vars => Inv'
<1> SUFFICES ASSUME Inv, [Next]_vars PROVE Inv'
  OBVIOUS
<1>1. IndInv' /\ Lengths' /\ Tests'
  BY NextInd, NextLengths, NextTests DEF Inv
<1>2. CASE UNCHANGED vars
  <2>1. \A k \in 0 .. PoolNum : FullFrom(k)' = FullFrom(k) /\ GivingFrom(k)' = GivingFrom(k)
    BY <1>2 DEF vars, FullFrom, GivingFrom
  <2> QED BY <1>1, <2>1 DEF Inv, Frontier
<1>3. CASE Next
  <2>1. Frontier'
    BY <1>1, <1>3, FreeFrontier, ProbeFrontier, StoreFrontier, OtherFrontier DEF Inv, Next
  <2> QED BY <1>1, <2>1 DEF Inv
<1> QED BY <1>2, <1>3

LEMMA InvHolds == Spec => []Inv
<1>1. Init => Inv
  BY InitShared, LengthsInit, TestsInit, FrontierInit DEF Inv
<1> QED BY <1>1, NextInv, PTL DEF Spec

-----------------------------------------------------------------------------
(* The theorems, for every interleaving.                                     *)

\* Every variable keeps its type: no count is negative or passes the length at which a
\* list is given back.
THEOREM TypeCorrect == Spec => []TypeOK
<1>1. Inv => TypeOK
  BY DEF Inv, IndInv, Shape, Lengths, Counts, TypeOK
<1> QED BY InvHolds, <1>1, PTL

\* A count is the length of its chain, or more by exactly the list that another thread
\* took first, so the give-back of hx_free_buf never walks past the end of a chain, for
\* any number of threads and any start-up.
THEOREM ChainsStayLong == Spec => []ChainsLongEnough
<1>1. Inv => ChainsLongEnough
  BY DEF Inv, Lengths
<1> QED BY InvHolds, <1>1, PTL

\* A slot of the pool holds a whole list or nothing, so the count that hx_buf_list_get
\* tells its caller is right when it finds a list at all.
THEOREM SlotsStayWhole == Spec => []SlotsWhole
<1>1. Inv => SlotsWhole
  BY DEF Inv, Lengths
<1> QED BY InvHolds, <1>1, PTL

\* A count is wrong only in a thread whose list another thread took out of the same slot
\* between its test and its critical section, and only until that thread refills: frees,
\* cuts and the give-backs of others never make a count wrong.
THEOREM CountsWrongOnlyAfterRace == Spec => []WrongCountOnlyAfterRace
<1>1. Inv => WrongCountOnlyAfterRace
  BY DEF Inv, Tests
<1> QED BY InvHolds, <1>1, PTL

\* The loop that gives a list back never runs past the last slot, where the code
\* would drop the list without a word: although the slots are tested one by one
\* and others fill them meanwhile, an empty slot lies at or after its index.
SlotForEveryCut ==
    \A t \in Thread :
        pc[t] = "freeProbe" => \E i \in Slots : i >= idx[t] /\ slot[i] = {}

\* The loop of hx_free_buf that looks for an empty slot always has one at or after its
\* index, for any number of threads that fill and empty slots between its tests: the
\* list that is given back is never dropped at the end of the loop.
THEOREM CutFindsSlot == Spec => []SlotForEveryCut
<1>1. Inv => SlotForEveryCut
  <2> SUFFICES ASSUME Inv, NEW t \in Thread, pc[t] = "freeProbe",
                      \A i \in Slots : i >= idx[t] => slot[i] # {}
               PROVE  FALSE
    BY DEF SlotForEveryCut
  <2> DEFINE k == idx[t]
  <2>1. k \in 0 .. PoolNum /\ PoolNum \in Nat
    BY PoolAssumption DEF Inv, IndInv, Shape, PoolAssumption
  <2>2. FullFrom(k) = k .. PoolNum - 1
    BY <2>1 DEF FullFrom, Slots
  <2>3. Cardinality(FullFrom(k)) = PoolNum - k
    <3>1. Cardinality(k .. PoolNum - 1) = IF k > PoolNum - 1 THEN 0 ELSE PoolNum - 1 - k + 1
      BY <2>1, FS_Interval
    <3> QED BY <2>1, <2>2, <3>1
  <2>4. t \in GivingFrom(k) /\ GivingFrom(k) \in SUBSET Thread
    BY <2>1 DEF GivingFrom, Giving
  <2>5. IsFiniteSet(GivingFrom(k)) /\ Cardinality(GivingFrom(k)) \in Nat
    <3>1. {} \in SUBSET Slots
      OBVIOUS
    <3> QED BY <2>4, <3>1, Countable
  <2>6. Cardinality(GivingFrom(k)) # 0
    BY <2>4, <2>5, FS_EmptySet
  <2>7. Cardinality(FullFrom(k)) + Cardinality(GivingFrom(k)) <= PoolNum - k
    BY <2>1 DEF Inv, Frontier
  <2> QED BY <2>1, <2>3, <2>5, <2>6, <2>7
<1> QED BY InvHolds, <1>1, PTL

\* A buffer leaves the pool for good only when a give-back overwrites the list that
\* another give-back put into the same slot after the test: no other interleaving of
\* allocations, frees and give-backs loses one.
THEOREM LostOnlyInOneSlot == Spec => LostOnlyByOverwrite
<1> DEFINE Lossless == Held \subseteq Held' \/ \E t \in latePut : pc[t] = "freeStore" /\ pc'[t] = "idle"
<1>1. Inv /\ [Next]_vars => [Lossless]_vars
  <2> SUFFICES ASSUME Inv, Next PROVE Lossless
    OBVIOUS
  <2> USE DEF Inv, IndInv, Shape, Goto
  <2>1. PICK t \in Thread :
          \/ InitProbe(t) \/ InitTake(t)
          \/ Malloc(t) \/ MallocRefill(t) \/ MallocProbe(t) \/ MallocTake(t)
          \/ \E b \in inUse : Free(t, b)
          \/ FreeProbe(t) \/ FreeStore(t)
    BY DEF Next
  <2>2. \A b : b \in Held
          <=> \/ b \in inUse
              \/ \E i \in Slots : b \in slot[i]
              \/ \E u \in Thread : b \in list[u] \/ b \in cut[u]
    BY DEF Held
  <2>3. \A b : b \in Held'
          <=> \/ b \in inUse'
              \/ \E i \in Slots : b \in slot'[i]
              \/ \E u \in Thread : b \in list'[u] \/ b \in cut'[u]
    BY DEF Held
  <2>4. CASE InitProbe(t) \/ MallocProbe(t)
    <3>1. list[t] = {} /\ UNCHANGED <<slot, cut, inUse>>
          /\ \A u \in Thread \ {t} : list'[u] = list[u]
      BY <2>4 DEF InitProbe, MallocProbe, GetProbe, Tests
    <3> QED BY <2>2, <2>3, <3>1
  <2>5. CASE InitTake(t) \/ MallocTake(t)
    <3>1. /\ idx[t] \in Slots /\ list[t] = {} /\ cut' = cut
          /\ slot' = [slot EXCEPT ![idx[t]] = {}]
      BY <2>5 DEF InitTake, MallocTake, EmptiedSlot, Tests, Taking, AtSlot
    <3>2. /\ \A b \in slot[idx[t]] : b \in list'[t] \cup inUse'
          /\ inUse \subseteq inUse' /\ \A u \in Thread \ {t} : list'[u] = list[u]
      BY <2>5 DEF InitTake, MallocTake
    <3> QED BY <2>2, <2>3, <3>1, <3>2
  <2>6. CASE Malloc(t) \/ MallocRefill(t)
    <3>1. /\ \A b \in list[t] : b \in list'[t] \cup inUse'
          /\ inUse \subseteq inUse' /\ \A u \in Thread \ {t} : list'[u] = list[u]
          /\ UNCHANGED <<slot, cut>>
      BY <2>6 DEF Malloc, MallocRefill
    <3> QED BY <2>2, <2>3, <3>1
  <2>7. ASSUME NEW b \in inUse, Free(t, b)
        PROVE  Lossless
    <3>1. pc[t] = "idle" /\ cut[t] = {}
      BY <2>7 DEF Free, Lengths, Giving
    <3>2. list[t] \cup {b} \subseteq list'[t] \cup cut'[t]
      BY <2>7 DEF Free
    <3>3. /\ \A u \in Thread \ {t} : list'[u] = list[u] /\ cut'[u] = cut[u]
          /\ slot' = slot /\ inUse' = inUse \ {b}
      BY <2>7 DEF Free
    <3> QED BY <2>2, <2>3, <3>1, <3>2, <3>3
  <2>8. CASE FreeProbe(t)
    <3>1. idx[t] # PoolNum
      BY <2>8, ProbeFrontier
    <3>2. UNCHANGED <<slot, list, cut, inUse>>
      BY <2>8, <3>1 DEF FreeProbe
    <3> QED BY <3>2 DEF Held
  <2>9. CASE FreeStore(t)
    <3>1. CASE t \in latePut
      BY <2>9, <3>1 DEF FreeStore, Places
    <3>2. CASE t \notin latePut
      <4>1. idx[t] \in Slots /\ slot[idx[t]] = {}
        BY <2>9, <3>2 DEF FreeStore, AtSlot, Filling, Tests
      <4>2. /\ UNCHANGED <<list, inUse>> /\ slot' = [slot EXCEPT ![idx[t]] = cut[t]]
            /\ cut' = [cut EXCEPT ![t] = {}]
        BY <2>9 DEF FreeStore, Stored
      <4>3. \A i \in Slots : slot[i] \subseteq slot'[i]
        BY <4>1, <4>2
      <4>4. cut[t] \subseteq slot'[idx[t]]
        BY <4>1, <4>2
      <4>5. \A u \in Thread \ {t} : cut'[u] = cut[u]
        BY <4>2
      <4> QED BY <2>2, <2>3, <4>1, <4>2, <4>3, <4>4, <4>5
    <3> QED BY <3>1, <3>2
  <2> QED BY <2>1, <2>4, <2>5, <2>6, <2>7, <2>8, <2>9
<1> QED BY InvHolds, <1>1, PTL DEF Spec, LostOnlyByOverwrite

=============================================================================
