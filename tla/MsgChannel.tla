----------------------------- MODULE MsgChannel -----------------------------
(***************************************************************************)
(* What the services of TSNLight rely on when they use a message queue: a  *)
(* bounded first-in first-out channel.  A write either appends the message *)
(* or is refused, and it is refused only while the channel is full; a read *)
(* returns the oldest message, or nothing while the channel is empty.      *)
(***************************************************************************)
EXTENDS Naturals, Sequences

CONSTANTS Message, Capacity, Nothing

VARIABLES
    channel,    \* the messages written and not yet read, the oldest first
    written,    \* what the last write returned: the message, or Nothing (ERR)
    got         \* what the last read returned: a message, or Nothing (NULL)

vars == <<channel, written, got>>

Init == channel = <<>> /\ written = Nothing /\ got = Nothing

Write(m) ==
    /\ Len(channel) < Capacity
    /\ channel' = Append(channel, m)
    /\ written' = m
    /\ UNCHANGED got

Refuse ==
    /\ Len(channel) = Capacity
    /\ written' = Nothing
    /\ UNCHANGED <<channel, got>>

Read ==
    /\ channel # <<>>
    /\ got' = Head(channel)
    /\ channel' = Tail(channel)
    /\ UNCHANGED written

ReadNothing ==
    /\ channel = <<>>
    /\ got' = Nothing
    /\ UNCHANGED <<channel, written>>

Next == (\E m \in Message : Write(m)) \/ Refuse \/ Read \/ ReadNothing

Spec == Init /\ [][Next]_vars
=============================================================================
