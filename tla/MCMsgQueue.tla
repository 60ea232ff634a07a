---------------------------- MODULE MCMsgQueue ----------------------------
(* Values for TLC. *)
EXTENDS MsgQueue

CONSTANTS m1, m2, m3

ThreeMessages == {m1, m2, m3}
===========================================================================
