---------------------------- MODULE ClassQueues ----------------------------
(***************************************************************************)
(* What an output port promises: the packets of a queue are sent in the    *)
(* order in which they arrived, each exactly once, and one packet at a time*)
(* is handed to the transmitter.  Which queue is served is left open.      *)
(***************************************************************************)
EXTENDS Sequences

CONSTANTS Ids, Classes, None

VARIABLES
    queue,     \* queue[q]: the packets of queue q, oldest first
    handed     \* the packet handed to the transmitter, or None

classVars == <<queue, handed>>

ClassInit == queue = [q \in Classes |-> <<>>] /\ handed = None

(* A packet or nothing arrives while a packet or nothing is handed over:   *)
(* the two sides of a port do not wait for each other.                     *)
Arrivals == {<<>>} \cup {<<id>> : id \in Ids}

Step(in, arrival, outs) ==
    queue' = [q \in Classes |-> (IF q \in outs THEN Tail(queue[q]) ELSE queue[q])
                                \o (IF q = in THEN arrival ELSE <<>>)]

HandOver(in, arrival, out) ==
    /\ handed = None /\ queue[out] # <<>>
    /\ handed' = Head(queue[out])
    /\ Step(in, arrival, {out})

Wait(in, arrival) ==
    /\ handed' \in {handed, None}
    /\ Step(in, arrival, {})

ClassNext ==
    \E in \in Classes, arrival \in Arrivals :
        \/ \E out \in Classes : HandOver(in, arrival, out)
        \/ Wait(in, arrival)

ClassSpec == ClassInit /\ [][ClassNext]_classVars
============================================================================
