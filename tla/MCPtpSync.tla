----------------------------- MODULE MCPtpSync -----------------------------
(* A microsecond of five cycles in a digit of eight: as in the code, a digit *)
(* is three more than it may count.                                          *)
EXTENDS PtpSync
MCSkews == {-6, 4}
=============================================================================
