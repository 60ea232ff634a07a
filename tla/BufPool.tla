------------------------------ MODULE BufPool ------------------------------
(***************************************************************************)
(* The buffer pool of TSNLight, lib/buf.c: PoolNum slots, each holding a   *)
(* list of ListNum buffers or nothing, and one buffer list per service     *)
(* thread.  A thread allocates from its own list and refills it with a     *)
(* whole list of the pool; it frees into its own list, and when that has   *)
(* grown to two lists' worth it gives one back.  Buffers travel between    *)
(* threads as messages, so the thread that frees is seldom the one that    *)
(* allocated.                                                              *)
(*                                                                         *)
(* A slot is TESTED before the mutex is taken and written while it is      *)
(* held, so each loop over the pool is two kinds of step: Probe, which     *)
(* reads a slot, and Take or Store, one critical section; nothing keeps    *)
(* the loops of two threads apart.  Operations on the thread's own list    *)
(* are local and make one step.  The order of the buffers inside a list is *)
(* abstracted: a list is a set.  hx_free_buf_list is left out: its calls   *)
(* stand behind loops that do not end.                                     *)
(***************************************************************************)
EXTENDS Integers, FiniteSets

CONSTANTS
    Buffer,     \* the buffers malloc'ed by hx_buf_pool_init
    ListNum,    \* MAX_LIST_NUM: the buffers of a list
    PoolNum,    \* MAX_POOL_NUM: the slots of the pool
    Thread,     \* the threads with a struct buf_list: a fixed set of services
    Getters,    \* the threads that allocate
    Putters     \* the threads that free

ASSUME PoolAssumption ==
    /\ ListNum \in Nat \ {0}
    /\ PoolNum \in Nat
    /\ IsFiniteSet(Buffer) /\ IsFiniteSet(Thread)
    /\ Cardinality(Buffer) = ListNum * PoolNum
    /\ Getters \subseteq Thread /\ Putters \subseteq Thread

VARIABLES
    slot,    \* idle_buf_pool: slot[i] is a set of buffers, {} stands for NULL
    list,    \* list[t]: the buffers chained from buf_list.head
    count,   \* count[t]: buf_list.count
    cut,     \* cut[t]: new_buf_head, the list on its way back to the pool
    pc,      \* pc[t]: where thread t is
    idx,     \* idx[t]: the i of its loop over the pool
    inUse,   \* the buffers handed out, as messages, and not yet freed
    lateGet, \* history: the threads whose last list another thread took out of
             \* its slot between their test and their critical section
    latePut  \* history: the threads giving a list back to a slot that another
             \* thread filled between their test and their critical section

vars == <<slot, list, count, cut, pc, idx, inUse, lateGet, latePut>>

Slots == 0 .. PoolNum - 1

\* Where a thread is: between two calls, in the loop of hx_buf_list_get (for
\* hx_init or for a malloc), or in the loop of hx_free_buf that gives a list back.
Places == {"idle", "initProbe", "initTake", "probe", "take", "freeProbe", "freeStore"}

TypeOK ==
    /\ slot \in [Slots -> SUBSET Buffer]
    /\ list \in [Thread -> SUBSET Buffer]
    /\ count \in [Thread -> 0 .. 2 * ListNum - 1]
    /\ cut \in [Thread -> SUBSET Buffer]
    /\ pc \in [Thread -> Places]
    /\ idx \in [Thread -> 0 .. PoolNum]
    /\ inUse \subseteq Buffer
    /\ lateGet \subseteq Thread /\ latePut \subseteq Thread

\* The first ListNum buffers of a chain: any of them, since a list has no order.
FirstList(bufs) == {s \in SUBSET bufs : Cardinality(s) = ListNum}

\* hx_buf_pool_init fills every slot; every service then calls hx_init.
Init ==
    /\ slot \in [Slots -> FirstList(Buffer)]
    /\ \A i, j \in Slots : i # j => slot[i] \cap slot[j] = {}
    /\ list = [t \in Thread |-> {}]
    /\ count = [t \in Thread |-> 0]
    /\ cut = [t \in Thread |-> {}]
    /\ pc = [t \in Thread |-> "initProbe"]
    /\ idx = [t \in Thread |-> 0]
    /\ inUse = {} /\ lateGet = {} /\ latePut = {}

Goto(t, place) == pc' = [pc EXCEPT ![t] = place]

\* The other threads that have tested slot i and are about to take what it holds, or
\* to fill it.
Outrun(t, i, place) == {u \in Thread \ {t} : pc[u] \in place /\ idx[u] = i}
Taking == {"initTake", "take"}
Filling == {"freeStore"}

-----------------------------------------------------------------------------
(* hx_buf_list_get *)

\* One turn of the loop over the pool, the test of the slot made without the
\* mutex; when the loop ends the caller gets an empty list with count 0.
GetProbe(t, here, there) ==
    /\ pc[t] = here
    /\ IF idx[t] = PoolNum
       THEN /\ list' = [list EXCEPT ![t] = {}]
            /\ count' = [count EXCEPT ![t] = 0]
            /\ Goto(t, "idle")
            /\ UNCHANGED idx
       ELSE /\ IF slot[idx[t]] # {}
               THEN Goto(t, there) /\ UNCHANGED idx
               ELSE idx' = [idx EXCEPT ![t] = @ + 1] /\ UNCHANGED pc
            /\ UNCHANGED <<list, count>>
    /\ UNCHANGED <<slot, cut, inUse, lateGet, latePut>>

InitProbe(t) == GetProbe(t, "initProbe", "initTake")

MallocProbe(t) == GetProbe(t, "probe", "take")

\* idle_buf_pool[i]=NULL.  (Mutant: the slot keeps the list.)
EmptiedSlotKept(i) == slot
EmptiedSlot(i) == [slot EXCEPT ![i] = {}]

\* The critical section, when hx_init made the call.  It takes what the slot
\* holds now, and sets the count to a full list whatever that is.
InitTake(t) ==
    /\ pc[t] = "initTake"
    /\ list' = [list EXCEPT ![t] = slot[idx[t]]]
    /\ count' = [count EXCEPT ![t] = ListNum]
    /\ slot' = EmptiedSlot(idx[t])
    /\ Goto(t, "idle")
    /\ lateGet' = lateGet \cup Outrun(t, idx[t], Taking)
    /\ UNCHANGED <<cut, idx, inUse, latePut>>

\* The same for a malloc, which then takes the first buffer unless the list it
\* was given is empty (the malloc returns NULL).
MallocTake(t) ==
    /\ pc[t] = "take"
    /\ slot' = EmptiedSlot(idx[t])
    /\ Goto(t, "idle")
    /\ \E got \in SUBSET slot[idx[t]] :
       /\ Cardinality(got) = (IF slot[idx[t]] = {} THEN 0 ELSE 1)
       /\ list' = [list EXCEPT ![t] = slot[idx[t]] \ got]
       /\ count' = [count EXCEPT ![t] = ListNum - Cardinality(got)]
       /\ inUse' = inUse \cup got
    /\ lateGet' = lateGet \cup Outrun(t, idx[t], Taking)
    /\ UNCHANGED <<cut, idx, latePut>>

-----------------------------------------------------------------------------
(* hx_malloc_eth_pkt_buf and hx_malloc_metedata_buf, which differ only in   *)
(* the address they return inside the buffer.  A thread that cannot queue    *)
(* the message frees the buffer into the list it took it from: no change.    *)

\* (Mutant: without buf_head->count--.)
MallocUncounted(t) ==
    /\ t \in Getters /\ pc[t] = "idle"
    /\ \E b \in list[t] :
       /\ list' = [list EXCEPT ![t] = @ \ {b}]
       /\ inUse' = inUse \cup {b}
    /\ UNCHANGED <<slot, count, cut, pc, idx, lateGet, latePut>>

Malloc(t) ==
    /\ t \in Getters /\ pc[t] = "idle"
    /\ \E b \in list[t] :
       /\ list' = [list EXCEPT ![t] = @ \ {b}]
       /\ inUse' = inUse \cup {b}
    /\ count' = [count EXCEPT ![t] = @ - 1]
    /\ UNCHANGED <<slot, cut, pc, idx, lateGet, latePut>>

\* The list is used up.
NoBuffer(t) == list[t] = {}

MallocRefill(t) ==
    /\ t \in Getters /\ pc[t] = "idle"
    /\ NoBuffer(t)
    /\ idx' = [idx EXCEPT ![t] = 0]
    /\ Goto(t, "probe")
    /\ lateGet' = lateGet \ {t}
    /\ UNCHANGED <<slot, list, count, cut, inUse, latePut>>

-----------------------------------------------------------------------------
(* hx_free_buf *)

\* The length at which half of a list is given back.  (Mutant: it never is.)
GiveBackAtNever == 4 * ListNum
GiveBackAt == 2 * ListNum

\* The count when the list is cut.  (Mutant: one decrement is missing.)
CountAfterCutOff == GiveBackAt - ListNum + 1
CountAfterCut == GiveBackAt - ListNum

Free(t, b) ==
    /\ t \in Putters /\ pc[t] = "idle"
    /\ b \in inUse
    /\ inUse' = inUse \ {b}
    /\ \/ /\ count[t] + 1 # GiveBackAt
          /\ list' = [list EXCEPT ![t] = @ \cup {b}]
          /\ count' = [count EXCEPT ![t] = @ + 1]
          /\ UNCHANGED <<cut, pc, idx>>
       \/ /\ count[t] + 1 = GiveBackAt
          /\ \E s \in FirstList(list[t] \cup {b}) :
             /\ cut' = [cut EXCEPT ![t] = s]
             /\ list' = [list EXCEPT ![t] = (@ \cup {b}) \ s]
          /\ count' = [count EXCEPT ![t] = CountAfterCut]
          /\ idx' = [idx EXCEPT ![t] = 0]
          /\ Goto(t, "freeProbe")
    /\ UNCHANGED <<slot, lateGet, latePut>>

\* idle_buf_pool[i]==NULL.  (Mutant: the test is dropped.)
EmptySlotAny(i) == TRUE
EmptySlot(i) == slot[i] = {}

\* One turn of the loop that looks for an empty slot, again without the mutex.
\* When the loop runs out, the list that was cut off is forgotten.
FreeProbe(t) ==
    /\ pc[t] = "freeProbe"
    /\ IF idx[t] = PoolNum
       THEN /\ cut' = [cut EXCEPT ![t] = {}]
            /\ Goto(t, "idle")
            /\ UNCHANGED idx
       ELSE /\ IF EmptySlot(idx[t])
               THEN Goto(t, "freeStore") /\ UNCHANGED idx
               ELSE idx' = [idx EXCEPT ![t] = @ + 1] /\ UNCHANGED pc
            /\ UNCHANGED cut
    /\ UNCHANGED <<slot, list, count, inUse, lateGet, latePut>>

\* What the slot is given.  (Mutant: the list from the node after its head.)
StoredNext(t) == cut[t] \ {CHOOSE head \in cut[t] : TRUE}
Stored(t) == cut[t]

\* The critical section: the slot is overwritten, whatever it holds now.
FreeStore(t) ==
    /\ pc[t] = "freeStore"
    /\ slot' = [slot EXCEPT ![idx[t]] = Stored(t)]
    /\ cut' = [cut EXCEPT ![t] = {}]
    /\ Goto(t, "idle")
    /\ latePut' = (latePut \ {t}) \cup Outrun(t, idx[t], Filling)
    /\ UNCHANGED <<list, count, idx, inUse, lateGet>>

-----------------------------------------------------------------------------
Next ==
    \E t \in Thread :
        \/ InitProbe(t) \/ InitTake(t)
        \/ Malloc(t) \/ MallocRefill(t) \/ MallocProbe(t) \/ MallocTake(t)
        \/ \E b \in inUse : Free(t, b)
        \/ FreeProbe(t) \/ FreeStore(t)

Spec == Init /\ [][Next]_vars

-----------------------------------------------------------------------------
\* No buffer is in two places (a slot, a thread's list, a list on its way back,
\* the messages), so none is handed out twice.
NothingShared ==
    /\ \A i \in Slots :
       /\ slot[i] \cap inUse = {}
       /\ \A j \in Slots \ {i} : slot[i] \cap slot[j] = {}
       /\ \A t \in Thread : slot[i] \cap (list[t] \cup cut[t]) = {}
    /\ \A t \in Thread :
       /\ list[t] \cap cut[t] = {}
       /\ (list[t] \cup cut[t]) \cap inUse = {}
       /\ \A u \in Thread \ {t} :
          (list[t] \cup cut[t]) \cap (list[u] \cup cut[u]) = {}

\* A count may claim a list that another thread took first, and then it is too
\* large by exactly ListNum; so when it reaches 2 * ListNum the chain still has
\* the ListNum buffers that the give-back of hx_free_buf walks over.
ChainsLongEnough ==
    \A t \in Thread : count[t] - Cardinality(list[t]) \in {0, ListNum}

\* A slot of the pool holds a whole list or nothing, which is what
\* hx_buf_list_get tells its caller without counting.
SlotsWhole == \A i \in Slots : Cardinality(slot[i]) \in {0, ListNum}

\* A count is wrong only in a thread that lost the race for its list at
\* buf.c:113: another thread emptied the very slot between its test and its
\* critical section.  Frees, cuts and the give-backs of others never make a
\* count wrong.  (A thread that looks for a new list has done with its count.)
WrongCountOnlyAfterRace ==
    \A t \in Thread : \/ count[t] = Cardinality(list[t])
                       \/ t \in lateGet
                       \/ pc[t] \in {"probe", "take"}

\* The buffers that are in some place.
Held == inUse \cup (UNION {slot[i] : i \in Slots}) \cup (UNION {list[t] \cup cut[t] : t \in Thread})

\* A buffer is lost for good only where two give-backs meet in one slot: by a
\* thread that overwrites, in its critical section at buf.c:256, the list that
\* another thread put into the slot after the test at buf.c:254.
LostOnlyByOverwrite ==
    [][Held \subseteq Held' \/ \E t \in latePut : pc[t] = "freeStore" /\ pc'[t] = "idle"]_vars

=============================================================================
