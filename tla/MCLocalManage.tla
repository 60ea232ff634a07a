--------------------------- MODULE MCLocalManage ---------------------------
(* Files around one base file: every set of ids of the forward table, list   *)
(* lengths around one and two full messages, gate lists of two depths, the   *)
(* sections in some other orders, registers left out, an unknown section.    *)
EXTENDS LocalManage

Entries(n) == [i \in 1 .. n |-> [valid |-> i % 2, slot |-> 7 * i, addr |-> i % 32]]
Table(ids) == [i \in 1 .. Len(ids) |-> [id |-> ids[i], outport |-> 20 + i]]
Ascending(ids) == SelectSeq([i \in 1 .. 9 |-> i - 1], LAMBDA i : i \in ids)
AllRegisters == [r \in DOMAIN RegisterAddr |-> RegisterAddr[r] + 40]
FileOrder ==
    <<"register", "forward_info", "inject_time_table", "submit_time_table", "gate_out">>

Base ==
    [ given |-> RegisterOrder, reg |-> AllRegisters, forward |-> Table(<<0, 1, 3>>),
      inject |-> Entries(7), submit |-> Entries(3), depth |-> 8,
      gate |-> [p \in Port |-> [i \in 1 .. 8 |-> 16 * (p + 1) + i]],
      order |-> FileOrder, unknown |-> FALSE ]

MCConfig ==
    {[Base EXCEPT !.forward = Table(Ascending(ids))] : ids \in SUBSET (0 .. 8)}
    \cup {[Base EXCEPT !.forward = Table(ids)] :
            ids \in {<<4, 3, 2>>, <<2, 3, 2, 3>>, <<5, 5>>, [i \in 1 .. 14 |-> 30 + i]}}
    \cup {[Base EXCEPT !.inject = Entries(m), !.submit = Entries(n)] :
            m \in {0, 1, 5, 6, 7, 12, 13}, n \in {0, 1, 6, 11, 12}}
    \cup {[Base EXCEPT !.depth = d, !.gate = [p \in Port |-> [i \in 1 .. d |-> 100 * p + i]]] :
            d \in {1, 2, 4, 8, 16}}
    \cup {[Base EXCEPT !.order = Reverse(FileOrder), !.unknown = u,
                       !.given = <<"slot_length", "port_type">>,
                       !.reg = [r \in {"slot_length", "port_type"} |-> 9]] : u \in BOOLEAN}
    \cup {[Base EXCEPT !.order = <<"gate_out", "register", "submit_time_table",
                                   "forward_info", "inject_time_table">>]}
=============================================================================
