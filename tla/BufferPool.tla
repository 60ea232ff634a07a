----------------------------- MODULE BufferPool ----------------------------
(***************************************************************************)
(* What the packet buffer promises to the rest of the switch.  A buffer is *)
(* free, or held by the port that receives a packet into it, or it has     *)
(* copies: the output ports that still have to send the packet.  It becomes*)
(* free again with its last copy and never before.                         *)
(***************************************************************************)
CONSTANTS Bufids, Ports

VARIABLES
    free,    \* the buffers nobody uses
    holder,  \* holder[p]: the buffers port p received a packet into
    copies   \* copies[id]: the ports that still have to send buffer id

poolVars == <<free, holder, copies>>

PoolTypeOK ==
    /\ free \in SUBSET Bufids
    /\ holder \in [Ports -> SUBSET Bufids]
    /\ copies \in [Bufids -> SUBSET Ports]

PoolInit ==
    /\ free = Bufids
    /\ holder = [p \in Ports |-> {}]
    /\ copies = [id \in Bufids |-> {}]

(* A packet that arrives at port p gets a free buffer.                     *)
Take(p, id) ==
    /\ id \in free
    /\ free' = free \ {id}
    /\ holder' = [holder EXCEPT ![p] = @ \cup {id}]
    /\ UNCHANGED copies

(* The packet of port p in buffer id is to be sent by the ports outs.      *)
Forward(p, id, outs) ==
    /\ id \in holder[p]
    /\ holder' = [holder EXCEPT ![p] = @ \ {id}]
    /\ copies' = [copies EXCEPT ![id] = outs]
    /\ UNCHANGED free

(* Port p is done with its copy; the last one frees the buffer.            *)
Release(p, id) ==
    /\ p \in copies[id]
    /\ copies' = [copies EXCEPT ![id] = @ \ {p}]
    /\ free' = IF copies[id] = {p} THEN free \cup {id} ELSE free
    /\ UNCHANGED holder

PoolNext ==
    \E p \in Ports, id \in Bufids :
        \/ Take(p, id)
        \/ \E outs \in (SUBSET Ports) \ {{}} : Forward(p, id, outs)
        \/ Release(p, id)

PoolSpec == PoolInit /\ [][PoolNext]_poolVars
============================================================================
