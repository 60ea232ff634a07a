------------------------------ MODULE MsgQueue ------------------------------
(***************************************************************************)
(* A message queue of TSNLight, lib/quene.c: a ring of QueueSize nodes     *)
(* with a front and a rear pointer and no lock.  One thread writes (the    *)
(* service, or the scheduler) and one reads (the scheduler, or the         *)
(* service).  Each access to what the two share is a step of its own: the  *)
(* test, the store or load of the node, and the move of the pointer.  The  *)
(* build does not optimise, so the statements happen in the order written. *)
(*                                                                         *)
(* hx_msg_quene_init links node i to node i + 1 and the last to the first. *)
(* front = rear means empty, so one node always stays unused.              *)
(***************************************************************************)
EXTENDS Integers, Sequences

CONSTANTS
    Message,    \* the messages that are written
    QueueSize,  \* txq_size or rxq_size
    Nothing     \* the NULL pointer

ASSUME QueueAssumption ==
    /\ QueueSize \in Nat \ {0}
    /\ Nothing \notin Message

VARIABLES
    node,       \* node[i]: the msg of node i
    front,      \* quene->front
    rear,       \* quene->rear
    writer,     \* where the writing thread is
    writing,    \* the node argument of the write that is under way
    reader,     \* where the reading thread is
    loaded,     \* tmp_node of the read
    written,    \* the message of the last write that returned, Nothing for ERR
    got         \* what the last read returned

vars == <<node, front, rear, writer, writing, reader, loaded, written, got>>
writerVars == <<rear, writer, writing, written>>
readerVars == <<front, reader, loaded, got>>

Nodes == 0 .. QueueSize - 1

TypeOK ==
    /\ node \in [Nodes -> Message \cup {Nothing}]
    /\ front \in Nodes
    /\ rear \in Nodes
    /\ writer \in {"idle", "test", "blocked", "store", "move"}
    /\ writing \in Message \cup {Nothing}
    /\ reader \in {"idle", "load", "clear", "move"}
    /\ loaded \in Message \cup {Nothing}
    /\ written \in Message \cup {Nothing}
    /\ got \in Message \cup {Nothing}

Init ==
    /\ node = [i \in Nodes |-> Nothing]
    /\ front = 0
    /\ rear = 0
    /\ writer = "idle" /\ writing = Nothing
    /\ reader = "idle" /\ loaded = Nothing
    /\ written = Nothing /\ got = Nothing

\* p->next.  (Mutant: the last node is not linked to the head.)
FollowingOn(i) == i + 1
Following(i) == IF i = QueueSize - 1 THEN 0 ELSE i + 1

-----------------------------------------------------------------------------
(* hx_write_msg_quene_node and hx_write_msg_quene_node_blocking *)

\* The two calls differ in what they do when the queue is full.
CallWrite(m, blocking) ==
    /\ writer = "idle"
    /\ writer' = IF blocking THEN "blocked" ELSE "test"
    /\ writing' = m
    /\ UNCHANGED <<node, rear, written>>

\* (Mutants: the node that tells a full queue from an empty one is used too;
\* one node more is kept unused.)
FullEarly == front \in {Following(rear), Following(Following(rear))}
FullNever == FALSE
Full == Following(rear) = front

\* The blocking call tests again after usleep: it stays where it is.
TestFull ==
    /\ writer \in {"test", "blocked"}
    /\ \/ ~Full /\ writer' = "store" /\ UNCHANGED <<writing, written>>
       \/ /\ Full /\ writer = "test"
          /\ writer' = "idle" /\ writing' = Nothing /\ written' = Nothing
    /\ UNCHANGED <<node, rear>>

Store ==
    /\ writer = "store"
    /\ node' = [node EXCEPT ![rear] = writing]
    /\ writer' = "move"
    /\ UNCHANGED <<rear, writing, written>>

MoveRear ==
    /\ writer = "move"
    /\ rear' = Following(rear)
    /\ writer' = "idle" /\ writing' = Nothing /\ written' = writing
    /\ UNCHANGED node

-----------------------------------------------------------------------------
(* hx_read_msg_quene_node *)

\* An empty queue makes the call return NULL at once; the blocking read, which
\* regroup uses, sleeps and tests again.  Neither changes anything.
TestEmpty ==
    /\ reader = "idle"
    /\ \/ rear # front /\ reader' = "load" /\ UNCHANGED got
       \/ rear = front /\ got' = Nothing /\ UNCHANGED reader
    /\ UNCHANGED <<node, front, loaded>>

Load ==
    /\ reader = "load"
    /\ loaded' = node[front]
    /\ reader' = "clear"
    /\ UNCHANGED <<node, front, got>>

\* (Mutant: the node is cleared after the front has moved on.)
ClearFollowing ==
    /\ reader = "clear"
    /\ node' = [node EXCEPT ![Following(front)] = Nothing]
    /\ reader' = "move"
    /\ UNCHANGED <<front, loaded, got>>

Clear ==
    /\ reader = "clear"
    /\ node' = [node EXCEPT ![front] = Nothing]
    /\ reader' = "move"
    /\ UNCHANGED <<front, loaded, got>>

\* (Mutant: a read that does not move the front, as a peek would.)
MoveFrontNot ==
    /\ reader = "move"
    /\ front' = front
    /\ got' = loaded
    /\ loaded' = Nothing
    /\ reader' = "idle"
    /\ UNCHANGED node

MoveFront ==
    /\ reader = "move"
    /\ front' = Following(front)
    /\ got' = loaded
    /\ loaded' = Nothing
    /\ reader' = "idle"
    /\ UNCHANGED node

-----------------------------------------------------------------------------
Writer ==
    /\ \/ \E m \in Message, blocking \in BOOLEAN : CallWrite(m, blocking)
       \/ TestFull \/ Store \/ MoveRear
    /\ UNCHANGED readerVars

Reader ==
    /\ TestEmpty \/ Load \/ Clear \/ MoveFront
    /\ UNCHANGED writerVars

Next == Writer \/ Reader

Spec == Init /\ [][Next]_vars
FairSpec ==
    /\ Spec
    /\ WF_vars((TestFull \/ Store \/ MoveRear) /\ UNCHANGED readerVars)
    /\ WF_vars(Reader)

-----------------------------------------------------------------------------
(* The queue implements a bounded channel *)

\* The nodes from the front to the rear, how many they are, and the k-th of them.
InWindow(i) ==
    IF front <= rear THEN front <= i /\ i < rear ELSE front <= i \/ i < rear
Length == IF front <= rear THEN rear - front ELSE QueueSize + rear - front
At(k) == IF front + k - 1 < QueueSize THEN front + k - 1 ELSE front + k - 1 - QueueSize

\* The messages in the ring.  One that the reader has loaded and cleared is
\* still in the channel: the front has not moved, and the writer counts it.
Held ==
    [k \in 1 .. Length |->
        IF k = 1 /\ reader = "move" THEN loaded ELSE node[At(k)]]

Channel == INSTANCE MsgChannel WITH channel <- Held, Capacity <- QueueSize - 1

\* Without a lock, the two threads see a bounded FIFO channel: no message is
\* lost, repeated or reordered, a read never returns NULL for a message that is
\* there, and a write is refused only while QueueSize - 1 messages are queued.
ImplementsChannel == Channel!Spec

\* The nodes outside the window between front and rear are NULL, so that a read
\* that ran past the rear would be noticed, and those inside are not.
NullOutsideWindow ==
    \A i \in Nodes :
        (node[i] = Nothing) <=>
            IF InWindow(i) THEN i = front /\ reader = "move"
            ELSE ~(i = rear /\ writer = "move")

\* A write comes back, the blocking one too, as long as the reader keeps
\* reading: the scheduler, which writes with the blocking call, does not hang.
WriteReturns == writer # "idle" ~> writer = "idle"

\* Every message that is stored in a node comes out of a read.
StoredIsRead == \A m \in Message, i \in Nodes : node[i] = m ~> got = m
=============================================================================
