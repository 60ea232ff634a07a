----------------------------- MODULE MCFlowMap -----------------------------
(* Two flows of the table, one of them with reserved bandwidth, and a        *)
(* five-tuple that is not in it; packets of one to four fragments with every *)
(* choice of ICMP-like bytes.                                                *)
EXTENDS FlowMap

CONSTANTS ts, rc, other

MCTuple == {ts, rc, other}
Flow(t, type, addr) ==
    [ tuple |-> t, flow_type |-> type, flow_id |-> 7, frag_flag |-> 0, frag_id |-> 0,
      inject_addr |-> addr, submit_addr |-> 31 - 3 - addr ]
MCStatic ==
    << [ID |-> 1, entry |-> Flow(NoTuple, 6, 0)], [ID |-> 2, entry |-> Flow(other, 0, 2)],
       [ID |-> 3, entry |-> Flow(ts, 1, 5)], [ID |-> 2, entry |-> Flow(rc, 3, 2)],
       [ID |-> 4, entry |-> Flow(ts, 6, 9)] >>

\* All fragments but the last hold four bytes; the last holds what is left, or,
\* in a short packet, padding too.
Cut(t, n, len, ones) ==
    [ tuple |-> t, ip_len |-> len, frags |-> n, ones |-> ones,
      upto |-> [k \in 0 .. n |-> 4 * k] ]
MCPacket ==
    UNION {{Cut(t, n, len, ones) : len \in {4 * n - 3, 4 * n}, ones \in SUBSET (0 .. n - 1)} :
            t \in MCTuple, n \in 1 .. 4}
=============================================================================
